---- MODULE Spec2Model ----
(***************************************************************************)
(* Model of the OSM / Wikidata power-plant reconciliation of               *)
(* compare_osm_wikidata.py: normalize_name, extract_wikidata_tags,         *)
(* compare_osm_to_wikidata and find_missing_in_osm, acting on the two      *)
(* data frames osm_df and wikidata_df that main() hands to both of them.   *)
(*                                                                         *)
(* Representation.                                                         *)
(*   - A data frame is [cols |-> set of column names, rows |-> sequence of *)
(*     rows]; a row's pandas index label is its position in rows, and the  *)
(*     filtered frames of the code (osm_filtered, osm_with_coords, ...)    *)
(*     are sequences of index labels, in frame order.                      *)
(*   - A string cell is Str(<<characters>>); a missing cell (None / NaN)   *)
(*     of a string column is NaN.  A float cell is Float(n) or NaNf.       *)
(*   - Coordinates are integers (grid units); a distance is carried as its *)
(*     square, and compared with a threshold t by DistGE / DistGT, which   *)
(*     are sqrt(d2) >= t and sqrt(d2) > t for every integer t.             *)
(*   - Output records carry two ghost fields, src and tgt: the index label *)
(*     of the source row the record was made for and of the target row it  *)
(*     was compared with (0 when there is none).  The code's records do    *)
(*     not have them and no operator of the model reads them.              *)
(*   - rerun is a ghost variable too: it records that a function was       *)
(*     called a second time on the frames.  So is given, which keeps the   *)
(*     two frames as they were before the first call.                      *)
(***************************************************************************)
EXTENDS Integers, Sequences, FiniteSets, TLC

VARIABLES
    osm_df,                 \* the OSM data frame (fetch_osm_power_plants)
    wikidata_df,            \* the Wikidata data frame (fetch_wikidata_power_plants)
    max_distance_km,        \* module configuration, line 15
    mismatch_threshold_km,  \* module configuration, line 16
    cmp,                    \* locals and results of the last compare_osm_to_wikidata call
    fmo,                    \* locals and results of the last find_missing_in_osm call
    rerun,                  \* ghost: some function was called again on the same frames
    given,                  \* ghost: the two frames as main got them from the fetch functions
    raw,                    \* the value first handed to a name normalizer
    arg,                    \* the argument of the last normalizer call
    result,                 \* what the last normalizer call returned
    fn,                     \* the normalizer called last, "none" before any call
    before,                 \* the normalizer called before that one
    RESET_CACHE,            \* fetch_wiki_info_by_country_v2.py: config flag reset_cache
    cache,                  \* the cache directory: per cache name, the pickled object if any
    remote,                 \* what the Wikidata endpoint answers now, per query
    fetched,                \* ghost: per cache name, the last call of its fetch function
    substation_names,       \* JAO matcher: unique_substations
    substations_df,         \* JAO matcher: its osm_df, the OSM substations
    coord_map,              \* JAO matcher: match_dict as returned
    matched_df,             \* JAO matcher: the frame of match_list
    unmatched_df,           \* JAO matcher: the frame of unmatched_list
    assertion,              \* JAO matcher: "none", "passed" or "failed" (line 176)
    country_answers,                \* collectors: per row of country_counts, what its fetch gives
    collector,              \* collectors: the collector that was called, or "none"
    futures,                \* collectors: per country, the state and the result of its task
    all_entities,           \* collectors: the frames appended by the main thread
    failed_countries,       \* collectors: the countries appended by the workers
    outcome,                \* collectors: the outcome of the collector
    tiles,                  \* notes import: per tile, the notes the API returns for it
    stop_on_error,          \* notes import: args.stop_on_error
    tile_index,             \* notes import: i of the loop over the tiles
    note_index,             \* notes import: position in the notes of the tile
    database,               \* notes import: the committed tables
    transaction,            \* notes import: the tables as the open transaction sees them
    sequences,              \* notes import: last value of the SERIAL sequences
    total_notes,            \* notes import: total_notes
    counted,                \* ghost: ids of the notes counted in total_notes
    last_insert,            \* ghost: the last call of insert_note
    import_state,           \* notes import: "idle", "running", "completed" or "exited"
    paged_fetch,            \* paged fetch: the function that runs the loop, or "none"
    loop_offset,            \* paged fetch: offset
    loop_all_rows,          \* paged fetch: all_rows
    response,               \* paged fetch: the request in flight or its response
    requested,              \* ghost: the offsets requested so far
    received,               \* ghost: the pages received so far
    loop_state,             \* paged fetch: "idle", "running", "returned" or "raised"
    bbox,                   \* tiles: the bounding box of bbox_str
    max_tile_size,          \* tiles: max_tile_size
    split                   \* tiles: the result of split_bbox_into_tiles

reconciliation_vars ==
    <<osm_df, wikidata_df, max_distance_km, mismatch_threshold_km, cmp, fmo, rerun, given>>

normalizer_vars == <<raw, arg, result, fn, before>>

cache_vars == <<RESET_CACHE, cache, remote, fetched>>

matcher_vars ==
    <<substation_names, substations_df, coord_map, matched_df, unmatched_df, assertion>>

collector_vars ==
    <<country_answers, collector, futures, all_entities, failed_countries, outcome>>

notes_vars ==
    <<tiles, stop_on_error, tile_index, note_index, database, transaction, sequences,
      total_notes, counted, last_insert, import_state>>

pager_vars ==
    <<paged_fetch, loop_offset, loop_all_rows, response, requested, received, loop_state>>

tiles_vars == <<bbox, max_tile_size, split>>

vars == <<reconciliation_vars, normalizer_vars, cache_vars, matcher_vars, collector_vars,
          notes_vars, pager_vars, tiles_vars>>

\* What the actions of one program leave alone: the variables of the others.
outside_reconciliation ==
    <<normalizer_vars, cache_vars, matcher_vars, collector_vars, notes_vars,
      pager_vars, tiles_vars>>
outside_normalizer ==
    <<reconciliation_vars, cache_vars, matcher_vars, collector_vars, notes_vars,
      pager_vars, tiles_vars>>
outside_cache ==
    <<reconciliation_vars, normalizer_vars, matcher_vars, collector_vars, notes_vars,
      pager_vars, tiles_vars>>
outside_matcher ==
    <<reconciliation_vars, normalizer_vars, cache_vars, collector_vars, notes_vars,
      pager_vars, tiles_vars>>
outside_collector ==
    <<reconciliation_vars, normalizer_vars, cache_vars, matcher_vars, notes_vars,
      pager_vars, tiles_vars>>
outside_notes ==
    <<reconciliation_vars, normalizer_vars, cache_vars, matcher_vars, collector_vars,
      pager_vars, tiles_vars>>
outside_pager ==
    <<reconciliation_vars, normalizer_vars, cache_vars, matcher_vars, collector_vars,
      notes_vars, tiles_vars>>
outside_tiles ==
    <<reconciliation_vars, normalizer_vars, cache_vars, matcher_vars, collector_vars,
      notes_vars, pager_vars>>

(***************************************************************************)
(* Bounds.                                                                 *)
(***************************************************************************)
\* Total number of rows of the two data frames together.
MaxRows == 3

\* Length of the strings handed to the name normalizers on their own.
MaxLen == 3

(***************************************************************************)
(* Cell values.                                                            *)
(***************************************************************************)
Str(s) == [isstr |-> TRUE, chars |-> s]
NaN == [isstr |-> FALSE, chars |-> <<>>]
Float(n) == [isnan |-> FALSE, val |-> n]
NaNf == [isnan |-> TRUE, val |-> 0]

\* A value that is neither a string nor missing: the number with digit d.
Number(d) == [isstr |-> FALSE, chars |-> <<d>>]

\* A tags cell: a dict (an ordered sequence of key/value items) or not a dict.
\* A key is a sequence of tokens, so that "wikidata" in key is token membership.
Dict(items) == [isdict |-> TRUE, items |-> items]
NotADict == [isdict |-> FALSE, items |-> <<>>]
Item(k, v) == [key |-> k, value |-> v]

(***************************************************************************)
(* normalize_name                                                          *)
(***************************************************************************)
\* str.lower() on one character of the model's alphabet.
Lower(c) == CASE c = "A" -> "a" [] c = "B" -> "b" [] c = "C" -> "c" [] OTHER -> c

LowerStr(s) == [i \in 1..Len(s) |-> Lower(s[i])]

IsSpace(c) == c = " "

\* str.split(): the maximal runs of non-whitespace characters, in order.
RECURSIVE SplitFrom(_, _, _, _)
SplitFrom(s, i, cur, words) ==
    IF i > Len(s)
    THEN IF cur = <<>> THEN words ELSE Append(words, cur)
    ELSE IF IsSpace(s[i])
         THEN SplitFrom(s, i + 1, <<>>, IF cur = <<>> THEN words ELSE Append(words, cur))
         ELSE SplitFrom(s, i + 1, Append(cur, s[i]), words)

Split(s) == SplitFrom(s, 1, <<>>, <<>>)

\* " ".join(words)
RECURSIVE Join(_)
Join(words) ==
    IF words = <<>> THEN <<>>
    ELSE IF Len(words) = 1 THEN words[1]
    ELSE words[1] \o <<" ">> \o Join(Tail(words))

\* Variant: name.lower().strip(), the runs of whitespace inside are kept.
normalize_nameStripOnly(name) ==
    LET s == LowerStr(name.chars)
        inner == {i \in 1..Len(s) : ~IsSpace(s[i])}
    IN IF ~name.isstr THEN name
       ELSE IF inner = {} THEN Str(<<>>)
       ELSE Str(SubSeq(s, CHOOSE i \in inner : \A j \in inner : i <= j,
                          CHOOSE i \in inner : \A j \in inner : i >= j))

normalize_name(name) ==
    IF name.isstr THEN Str(Join(Split(LowerStr(name.chars)))) ELSE name

(***************************************************************************)
(* normalize (JAO_OSM_substations_matcher.py)                              *)
(*                                                                         *)
(* The alphabet has one accented letter, "a_acute" (U+00E1), whose         *)
(* compatibility decomposition is "a" followed by the combining mark       *)
(* "U0301"; every other character of the alphabet is ASCII.                *)
(***************************************************************************)
\* unicodedata.normalize('NFKD', c) for one character.
Decompose(c) == IF c = "a_acute" THEN <<"a", "U0301">> ELSE <<c>>

RECURSIVE NFKD(_)
NFKD(s) == IF s = <<>> THEN <<>> ELSE Decompose(Head(s)) \o NFKD(Tail(s))

IsAscii(c) == c \notin {"a_acute", "U0301"}

\* text.encode('ASCII', 'ignore').decode()
EncodeAsciiIgnore(s) == SelectSeq(s, IsAscii)

\* \w on an ASCII character: a letter, a digit or the underscore.
IsWord(c) == c \in {"A", "B", "C", "Q", "a", "b", "c", "e", "1", "_"}

KeptByPattern(c) == IsWord(c) \/ IsSpace(c)

\* re.sub(r'[^\w\s]', '', text)
RemoveNonWord(s) == SelectSeq(s, KeptByPattern)

\* str.strip()
Strip(s) ==
    LET inner == {i \in 1..Len(s) : ~IsSpace(s[i])}
    IN IF inner = {} THEN <<>>
       ELSE SubSeq(s, CHOOSE i \in inner : \A j \in inner : i <= j,
                      CHOOSE i \in inner : \A j \in inner : i >= j)

\* Variant: the text is stripped before the punctuation is removed.
normalizeStripFirst(text) ==
    IF ~text.isstr THEN Str(<<>>)
    ELSE Str(LowerStr(RemoveNonWord(Strip(EncodeAsciiIgnore(NFKD(text.chars))))))

normalize(text) ==
    IF ~text.isstr THEN Str(<<>>)
    ELSE Str(Strip(LowerStr(RemoveNonWord(EncodeAsciiIgnore(NFKD(text.chars))))))

(***************************************************************************)
(* extract_wikidata_tags                                                   *)
(***************************************************************************)
KeyContains(key, token) == \E i \in 1..Len(key) : key[i] = token

StartsWith(s, c) == Len(s) >= 1 /\ s[1] = c

\* The item the for loop returns on, 0 when it falls through.
FirstWikidataItem(items) ==
    LET hits == {i \in 1..Len(items) :
                    /\ KeyContains(items[i].key, "wikidata")
                    /\ items[i].value.isstr
                    /\ StartsWith(items[i].value.chars, "Q")}
    IN IF hits = {} THEN 0 ELSE CHOOSE i \in hits : \A j \in hits : i <= j

\* Variant: any string value under a key containing "wikidata" is returned.
extract_wikidata_tagsAnyString(tags) ==
    LET hits == {i \in 1..Len(tags.items) :
                    /\ KeyContains(tags.items[i].key, "wikidata")
                    /\ tags.items[i].value.isstr}
    IN IF ~tags.isdict \/ hits = {} THEN NaN
       ELSE tags.items[CHOOSE i \in hits : \A j \in hits : i <= j].value

extract_wikidata_tags(tags) ==
    IF ~tags.isdict THEN NaN
    ELSE LET i == FirstWikidataItem(tags.items)
         IN IF i = 0 THEN NaN ELSE tags.items[i].value

(***************************************************************************)
(* pandas / scipy helpers as the two functions use them                    *)
(***************************************************************************)
\* Series.isna() on a string cell.
IsNa(cell) == ~cell.isstr

\* The subsequence of seq whose elements are in the set keep, in order.
RECURSIVE Sub(_, _)
Sub(seq, keep) ==
    IF seq = <<>> THEN <<>>
    ELSE (IF Head(seq) \in keep THEN <<Head(seq)>> ELSE <<>>) \o Sub(Tail(seq), keep)

\* All index labels of a frame, in order.
Index(df) == [i \in 1..Len(df.rows) |-> i]

\* Variant: a string is also a member when it is part of one of the values.
IsInSubstring(cell, values) ==
    \E j \in 1..Len(values) :
        /\ cell.isstr /\ values[j].isstr
        /\ \E a \in 0..Len(values[j].chars), b \in 0..Len(values[j].chars) :
              SubSeq(values[j].chars, a + 1, b) = cell.chars

\* Series.isin(values): membership; a missing cell is a member when values
\* holds a missing cell.
IsIn(cell, values) == \E j \in 1..Len(values) : values[j] = cell

\* Variant: dropna(subset=["latitude"]).
HasCoordsLatOnly(row) == ~row.latitude.isnan

\* dropna(subset=["latitude", "longitude"]) keeps the row.
HasCoords(row) == ~row.latitude.isnan /\ ~row.longitude.isnan

\* df[col] = df[src].apply(f): the column is created or overwritten in place.
SetNormalizedName(df, src) ==
    [cols |-> df.cols \cup {"normalized_name"},
     rows |-> [i \in 1..Len(df.rows) |->
                 [df.rows[i] EXCEPT !.normalized_name = normalize_name(df.rows[i][src])]]]

SetWikidataId(df) ==
    [cols |-> df.cols \cup {"wikidata_id"},
     rows |-> [i \in 1..Len(df.rows) |->
                 [df.rows[i] EXCEPT !.wikidata_id = extract_wikidata_tags(df.rows[i].tags)]]]

Column(df, col) == [i \in 1..Len(df.rows) |-> df.rows[i][col]]

\* Square of the planar distance between two rows' (latitude, longitude).
Dist2(p, q) ==
    (p.latitude.val - q.latitude.val) * (p.latitude.val - q.latitude.val)
    + (p.longitude.val - q.longitude.val) * (p.longitude.val - q.longitude.val)

\* Variant: the distance to the first point of the tree.
NearestOfFirst(tree, p) == [dist2 |-> Dist2(tree[1], p), index |-> 1]

\* KDTree(points).query(point): the squared distance to the nearest point of
\* the tree and its position in the tree.  Among equidistant points scipy
\* returns one, the same on every call; the model takes the first.  tree is
\* a non-empty sequence of rows.
Nearest(tree, p) ==
    LET k == CHOOSE k \in 1..Len(tree) :
                 \A j \in 1..Len(tree) :
                     \/ Dist2(tree[k], p) < Dist2(tree[j], p)
                     \/ (Dist2(tree[k], p) = Dist2(tree[j], p) /\ k <= j)
    IN [dist2 |-> Dist2(tree[k], p), index |-> k]

\* dist >= t and dist > t, for dist = sqrt(d2) >= 0 and an integer t.
DistGE(d2, t) == t <= 0 \/ d2 >= t * t
DistGT(d2, t) == t < 0 \/ d2 > t * t

\* Variant: dist > max_distance_km in the first test.
ClassifyExclusiveMax(d2, maxd, mism) ==
    IF DistGT(d2, maxd) THEN "missing"
    ELSE IF DistGT(d2, mism) THEN "mismatch"
    ELSE "matched"

\* The branch taken in the classification loop, lines 214-221 and 280-287.
Classify(d2, maxd, mism) ==
    IF DistGE(d2, maxd) THEN "missing"
    ELSE IF DistGT(d2, mism) THEN "mismatch"
    ELSE "matched"

\* Variant: drop_duplicates(subset=["name"], keep="last").
DropDuplicatesKeepLast(recs) ==
    Sub(recs, {recs[i] : i \in {i \in 1..Len(recs) :
                                   \A j \in (i + 1)..Len(recs) : recs[j].name # recs[i].name}})

\* pd.DataFrame(records).drop_duplicates(subset=["name"]): the first record
\* of every name is kept, in order.
DropDuplicates(recs) ==
    LET keep == {i \in 1..Len(recs) : \A j \in 1..(i - 1) : recs[j].name # recs[i].name}
    IN [k \in 1..Cardinality(keep) |->
          recs[CHOOSE i \in keep : Cardinality({j \in keep : j < i}) = k - 1]]

(***************************************************************************)
(* compare_osm_to_wikidata                                                 *)
(***************************************************************************)
\* Variant: the rows with a cross-reference are dropped from osm_df itself.
OsmFrameFilteredInPlace(o) ==
    LET n == SetWikidataId(SetNormalizedName(o, "name"))
    IN [cols |-> n.cols,
        rows |-> Sub(n.rows, {n.rows[i] : i \in {i \in 1..Len(n.rows) :
                                                   IsNa(n.rows[i].wikidata_id)}})]

\* Lines 182 and 194: osm_df after the call (two columns set in place).
OsmFrameAfterCompare(o) == SetWikidataId(SetNormalizedName(o, "name"))

\* Lines 183 and 261: wikidata_df after either call.
WikidataFrameNormalized(w) == SetNormalizedName(w, "plantLabel")

\* Variant: line 195 keeps every row.
OsmFilteredNoCrossRefFilter(o, w) ==
    Sub(Index(o), {i \in 1..Len(o.rows) :
                      ~IsIn(o.rows[i].normalized_name, Column(w, "normalized_name"))})

\* Lines 195-198: the index labels of osm_filtered (o, w as after lines 182-194).
OsmFiltered(o, w) ==
    LET no_reference == Sub(Index(o), {i \in 1..Len(o.rows) : IsNa(o.rows[i].wikidata_id)})
    IN Sub(no_reference,
           {i \in 1..Len(o.rows) :
               ~IsIn(o.rows[i].normalized_name, Column(w, "normalized_name"))})

\* dropna(subset=["latitude", "longitude"]) on the rows idx of df.
WithCoords(df, idx) == Sub(idx, {i \in 1..Len(df.rows) : HasCoords(df.rows[i])})

\* Line 202: the index labels of wikidata_with_coords, the rows of the KDTree
\* of compare_osm_to_wikidata: every row of wikidata_df with both coordinates.
WikidataTarget(w) == WithCoords(w, Index(w))

\* Variant: the rows of osm_df with a cross-reference are kept out of the tree.
OsmTargetUnlinked(o) ==
    WithCoords(o, Sub(Index(o), {i \in 1..Len(o.rows) :
                                    IsNa(extract_wikidata_tags(o.rows[i].tags))}))

\* Line 269: the index labels of osm_with_coords, the rows of the KDTree of
\* find_missing_in_osm: every row of osm_df with both coordinates.
OsmTarget(o) == WithCoords(o, Index(o))

\* Variant: isna().all(axis=1).
MissingCoordsAll(df, idx) ==
    Sub(idx, {i \in 1..Len(df.rows) :
                 df.rows[i].latitude.isnan /\ df.rows[i].longitude.isnan})

\* df[df[["latitude", "longitude"]].isna().any(axis=1)]
MissingCoords(df, idx) == Sub(idx, {i \in 1..Len(df.rows) : ~HasCoords(df.rows[i])})

\* The rows of df at the index labels idx: the array handed to KDTree.
RowsAt(df, idx) == [k \in 1..Len(idx) |-> df.rows[idx[k]]]

\* Lines 206-208 and 272-274: the nearest target of every source row, or <<>>
\* when one of the two frames with coordinates is empty.
Query(src_df, src_idx, tgt_df, tgt_idx) ==
    IF src_idx # <<>> /\ tgt_idx # <<>>
    THEN [k \in 1..Len(src_idx) |->
             Nearest(RowsAt(tgt_df, tgt_idx), src_df.rows[src_idx[k]])]
    ELSE <<>>

\* Variant: the query results are walked from the last to the first.
BranchReversed(q, maxd, mism, verdict) ==
    LET Takes(k) == Classify(q[k].dist2, maxd, mism) = verdict
        fwd == SelectSeq([k \in 1..Len(q) |-> k], Takes)
    IN [j \in 1..Len(fwd) |-> fwd[Len(fwd) + 1 - j]]

\* The positions of the query results that take the given branch, in order.
Branch(q, maxd, mism, verdict) ==
    LET Takes(k) == Classify(q[k].dist2, maxd, mism) = verdict
    IN SelectSeq([k \in 1..Len(q) |-> k], Takes)

Coords(row) == <<row.latitude, row.longitude>>

compare_osm_to_wikidata(osm0, wiki0, maxd, mism) ==
    LET o == OsmFrameAfterCompare(osm0)
        w == WikidataFrameNormalized(wiki0)
        osm_filtered == OsmFiltered(o, w)
        osm_with_coords == WithCoords(o, osm_filtered)
        wikidata_with_coords == WikidataTarget(w)
        wikidata_missing_coords == MissingCoords(w, Index(w))
        q == Query(o, osm_with_coords, w, wikidata_with_coords)
        miss == Branch(q, maxd, mism, "missing")
        diff == Branch(q, maxd, mism, "mismatch")
        OsmRow(k) == o.rows[osm_with_coords[k]]
        WikidataRow(k) == w.rows[wikidata_with_coords[q[k].index]]
        missing_list ==
            [j \in 1..Len(miss) |->
                [name |-> OsmRow(miss[j]).name,
                 latitude |-> OsmRow(miss[j]).latitude,
                 longitude |-> OsmRow(miss[j]).longitude,
                 tags |-> IF OsmRow(miss[j]).tags.isdict
                          THEN OsmRow(miss[j]).tags ELSE Dict(<<>>),
                 src |-> osm_with_coords[miss[j]],
                 tgt |-> wikidata_with_coords[q[miss[j]].index]]]
        diff_list ==
            [j \in 1..Len(diff) |->
                [name |-> WikidataRow(diff[j]).plantLabel,
                 wikidata_coords |-> Coords(WikidataRow(diff[j])),
                 osm_coords |-> Coords(OsmRow(diff[j])),
                 difference_km2 |-> q[diff[j]].dist2,
                 src |-> osm_with_coords[diff[j]],
                 tgt |-> wikidata_with_coords[q[diff[j]].index]]]
        nocoord_list ==
            [j \in 1..Len(wikidata_missing_coords) |->
                [name |-> w.rows[wikidata_missing_coords[j]].plantLabel,
                 location |-> w.rows[wikidata_missing_coords[j]].location,
                 src |-> wikidata_missing_coords[j],
                 tgt |-> 0]]
    IN [osm_df |-> o,
        wikidata_df |-> w,
        out |-> [called |-> TRUE,
                 osm_filtered |-> osm_filtered,
                 osm_with_coords |-> osm_with_coords,
                 wikidata_with_coords |-> wikidata_with_coords,
                 tree |-> IF q = <<>> THEN <<>>
                          ELSE [k \in 1..Len(wikidata_with_coords) |->
                                   Coords(w.rows[wikidata_with_coords[k]])],
                 missing_list |-> missing_list,
                 diff_list |-> diff_list,
                 nocoord_list |-> nocoord_list,
                 missing_in_wikidata |-> DropDuplicates(missing_list),
                 different_coordinates |-> DropDuplicates(diff_list),
                 wikidata_missing_coordinates |-> DropDuplicates(nocoord_list)]]

(***************************************************************************)
(* find_missing_in_osm                                                     *)
(***************************************************************************)
\* Variant: the normalized name is written over the name column as well.
OsmFrameNameOverwritten(o) ==
    LET n == SetNormalizedName(o, "name")
    IN [cols |-> n.cols,
        rows |-> [i \in 1..Len(n.rows) |->
                    [n.rows[i] EXCEPT !.name = n.rows[i].normalized_name]]]

\* Line 262: osm_df after the call.
OsmFrameAfterFind(o) == SetNormalizedName(o, "name")

\* Line 265: the index labels of wikidata_filtered.
WikidataFiltered(w, o) ==
    Sub(Index(w), {i \in 1..Len(w.rows) :
                      ~IsIn(w.rows[i].normalized_name, Column(o, "normalized_name"))})

find_missing_in_osm(wiki0, osm0, maxd, mism) ==
    LET w == WikidataFrameNormalized(wiki0)
        o == OsmFrameAfterFind(osm0)
        wikidata_filtered == WikidataFiltered(w, o)
        wikidata_with_coords == WithCoords(w, wikidata_filtered)
        osm_with_coords == OsmTarget(o)
        q == Query(w, wikidata_with_coords, o, osm_with_coords)
        miss == Branch(q, maxd, mism, "missing")
        diff == Branch(q, maxd, mism, "mismatch")
        WikidataRow(k) == w.rows[wikidata_with_coords[k]]
        OsmRow(k) == o.rows[osm_with_coords[q[k].index]]
        missing_list ==
            [j \in 1..Len(miss) |->
                [name |-> WikidataRow(miss[j]).plantLabel,
                 latitude |-> WikidataRow(miss[j]).latitude,
                 longitude |-> WikidataRow(miss[j]).longitude,
                 wikidata_id |-> WikidataRow(miss[j]).wikidata_id,
                 src |-> wikidata_with_coords[miss[j]],
                 tgt |-> osm_with_coords[q[miss[j]].index]]]
        diff_list ==
            [j \in 1..Len(diff) |->
                [name |-> WikidataRow(diff[j]).plantLabel,
                 wikidata_coords |-> Coords(WikidataRow(diff[j])),
                 osm_coords |-> Coords(OsmRow(diff[j])),
                 difference_km2 |-> q[diff[j]].dist2,
                 src |-> wikidata_with_coords[diff[j]],
                 tgt |-> osm_with_coords[q[diff[j]].index]]]
    IN [osm_df |-> o,
        wikidata_df |-> w,
        out |-> [called |-> TRUE,
                 wikidata_filtered |-> wikidata_filtered,
                 wikidata_with_coords |-> wikidata_with_coords,
                 osm_with_coords |-> osm_with_coords,
                 tree |-> IF q = <<>> THEN <<>>
                          ELSE [k \in 1..Len(osm_with_coords) |->
                                   Coords(o.rows[osm_with_coords[k]])],
                 missing_list |-> missing_list,
                 diff_list |-> diff_list,
                 missing_in_osm |-> DropDuplicates(missing_list),
                 different_coordinates |-> DropDuplicates(diff_list)]]

(***************************************************************************)
(* Input data.                                                             *)
(***************************************************************************)
\* A row as fetch_osm_power_plants builds it (id and type are never read by
\* the comparison); the two derived columns do not exist yet.
NewOsmRow(name, coords, tags) ==
    [name |-> name, latitude |-> coords[1], longitude |-> coords[2], tags |-> tags,
     normalized_name |-> NaN, wikidata_id |-> NaN]

\* A row as fetch_wikidata_power_plants builds it; wikidata_id is the item's
\* own identifier, here the row's position.
NewWikidataRow(name, coords) ==
    [wikidata_id |-> 0, plantLabel |-> name, latitude |-> coords[1],
     longitude |-> coords[2], location |-> "Unknown", normalized_name |-> NaN]

OsmFrame(rows) ==
    [cols |-> {"name", "latitude", "longitude", "tags"}, rows |-> rows]

WikidataFrame(rows) ==
    [cols |-> {"wikidata_id", "plantLabel", "latitude", "longitude", "location"},
     rows |-> [i \in 1..Len(rows) |-> [rows[i] EXCEPT !.wikidata_id = i]]]

NoTags == Dict(<<>>)
WikidataTag == Dict(<<Item(<<"wikidata">>, Str(<<"Q", "1">>))>>)

At(lat, lon) == <<Float(lat), Float(lon)>>
NoCoords == <<NaNf, NaNf>>

\* Thresholds (max_distance_km, mismatch_threshold_km): in order, equal, and
\* with a non-positive one.
AnyThresholds == {<<2, 1>>, <<1, 1>>, <<2, 0>>}
DefaultThresholds == {<<2, 1>>}

\* Frames whose rows differ in their coordinates.
GeoOsmRows ==
    {NewOsmRow(n, c, NoTags) :
        n \in {Str(<<"A">>), Str(<<"B">>)},
        c \in {At(0, 0), At(2, 0), At(2, 1), NoCoords}}
GeoWikidataRows ==
    {NewWikidataRow(Str(<<"c">>), c) : c \in {At(0, 0), At(1, 1), NoCoords}}

\* Frames whose rows differ in their names.
NameOsmRows ==
    {NewOsmRow(n, At(2, 0), NoTags) :
        n \in {Str(<<"A">>), Str(<<"a", " ", "b">>), Str(<<" ">>), NaN}}
NameWikidataRows ==
    {NewWikidataRow(n, At(0, 0)) :
        n \in {Str(<<"a">>), Str(<<"a", " ", " ", "b">>), Str(<<>>), NaN}}
    \cup {NewWikidataRow(n, NoCoords) : n \in {Str(<<"a">>), Str(<<>>)}}

\* Frames whose rows differ in their tags and in the presence of coordinates.
TagOsmRows ==
    {NewOsmRow(Str(<<"A">>), c, t) :
        c \in {At(0, 0), At(2, 0), NoCoords, <<Float(0), NaNf>>},
        t \in {NoTags, WikidataTag}}
TagWikidataRows ==
    {NewWikidataRow(Str(<<"c">>), c) : c \in {At(0, 0), NoCoords, <<NaNf, Float(0)>>}}

\* Frames with a coordinate outside the range of a latitude or a longitude
\* (the fetch functions store float(lat) and the API's lat / lon as they come).
RangeOsmRows ==
    {NewOsmRow(Str(<<"A">>), c, NoTags) : c \in {At(0, 0), At(91, 0)}}
RangeWikidataRows ==
    {NewWikidataRow(Str(<<"c">>), c) : c \in {At(0, 0), At(0, 181)}}

\* Frames whose names differ by letter case, an accent, a punctuation mark
\* or surrounding whitespace only.
PunctuationOsmRows ==
    {NewOsmRow(n, At(2, 0), NoTags) :
        n \in {Str(<<"A">>), Str(<<"a", "-">>), Str(<<"a_acute">>), Str(<<" ", "a">>)}}
PunctuationWikidataRows ==
    {NewWikidataRow(Str(<<"a">>), At(0, 0))}

\* Frames whose OSM rows differ in the shape of their tags: no mapping, an
\* empty one, and mappings whose keys do or do not contain "wikidata" and
\* whose values are or are not strings starting with "Q".
CrossReferenceTags ==
    {NotADict,
     NoTags,
     WikidataTag,
     Dict(<<Item(<<"wikidata">>, Str(<<>>))>>),
     Dict(<<Item(<<"wikidata">>, Str(<<"1">>))>>),
     Dict(<<Item(<<"wikidata">>, NaN)>>),
     Dict(<<Item(<<"name">>, Str(<<"Q", "1">>))>>),
     Dict(<<Item(<<"wikidata">>, Str(<<"1">>)), Item(<<"brand", ":", "wikidata">>, Str(<<"Q">>))>>)}
CrossReferenceOsmRows ==
    {NewOsmRow(Str(<<"A">>), At(2, 0), t) : t \in CrossReferenceTags}
CrossReferenceWikidataRows ==
    {NewWikidataRow(Str(<<"c">>), At(0, 0))}

\* Frames compared under every kind of thresholds.
ThresholdOsmRows ==
    {NewOsmRow(Str(<<"A">>), c, NoTags) : c \in {At(0, 0), At(1, 0), At(1, 1), At(2, 0)}}
ThresholdWikidataRows ==
    {NewWikidataRow(Str(<<"c">>), c) : c \in {At(0, 0), At(1, 1)}}

NoCompare ==
    [called |-> FALSE, osm_filtered |-> <<>>, osm_with_coords |-> <<>>,
     wikidata_with_coords |-> <<>>, tree |-> <<>>, missing_list |-> <<>>,
     diff_list |-> <<>>, nocoord_list |-> <<>>, missing_in_wikidata |-> <<>>,
     different_coordinates |-> <<>>, wikidata_missing_coordinates |-> <<>>]

NoFind ==
    [called |-> FALSE, wikidata_filtered |-> <<>>, wikidata_with_coords |-> <<>>,
     osm_with_coords |-> <<>>, tree |-> <<>>, missing_list |-> <<>>,
     diff_list |-> <<>>, missing_in_osm |-> <<>>, different_coordinates |-> <<>>]

\* No normalizer has been called on its own yet; x is the value on hand.
NoNormalizerCall(x) ==
    /\ raw = x
    /\ arg = x
    /\ result = x
    /\ fn = "none"
    /\ before = "none"

NormalizerIdle == NoNormalizerCall(NaN)

\* The collector of fetch_wiki_info_by_country_v2.py is not running: no
\* cache file, nothing asked of the endpoint.
CacheIdle ==
    /\ RESET_CACHE = FALSE
    /\ cache = <<>>
    /\ remote = <<>>
    /\ fetched = <<>>

\* The JAO matcher has loaded nothing.
MatcherIdle ==
    /\ substation_names = <<>>
    /\ substations_df = <<>>
    /\ coord_map = <<>>
    /\ matched_df = <<>>
    /\ unmatched_df = <<>>
    /\ assertion = "none"

\* No collector has been called.
NotReturned == [state |-> "none", full_df |-> <<>>, df_with_coords |-> <<>>,
                df_without_coords |-> <<>>]

CollectorIdle ==
    /\ country_answers = <<>>
    /\ collector = "none"
    /\ futures = <<>>
    /\ all_entities = <<>>
    /\ failed_countries = <<>>
    /\ outcome = NotReturned

\* The tables as create_tables_if_not_exist leaves them, and their sequences.
EmptyTables == [notes |-> {}, note_comments |-> {}, users |-> {}]
NewSequences == [note_comments |-> 0, users |-> 0]
NoInsert ==
    [called |-> FALSE, again |-> FALSE, result |-> "None",
     elem |-> [id |-> 0, date_created |-> 0, status |-> "open", is_power |-> FALSE,
               comments |-> <<>>]]

\* The notes import has not been started.
NotesIdle ==
    /\ tiles = <<>>
    /\ stop_on_error = FALSE
    /\ tile_index = 0
    /\ note_index = 0
    /\ database = EmptyTables
    /\ transaction = EmptyTables
    /\ sequences = NewSequences
    /\ total_notes = 0
    /\ counted = {}
    /\ last_insert = NoInsert
    /\ import_state = "idle"

NoRequest == [status |-> "none", data |-> <<>>]

\* No paged fetch is running.
PagerIdle ==
    /\ paged_fetch = "none"
    /\ loop_offset = 0
    /\ loop_all_rows = <<>>
    /\ response = NoRequest
    /\ requested = <<>>
    /\ received = <<>>
    /\ loop_state = "idle"

NoBox == [min_lon |-> 0, min_lat |-> 0, max_lon |-> 0, max_lat |-> 0]
NotSplit == [called |-> FALSE, lon_tiles |-> 0, lat_tiles |-> 0, tiles |-> <<>>]

\* split_bbox_into_tiles has no box to split.
TilesIdle ==
    /\ bbox = NoBox
    /\ max_tile_size = 0
    /\ split = NotSplit

\* The programs other than the one a specification is about are idle.
OutsideReconciliationIdle ==
    /\ NormalizerIdle
    /\ CacheIdle
    /\ MatcherIdle
    /\ CollectorIdle
    /\ NotesIdle
    /\ PagerIdle
    /\ TilesIdle

\* Both frames are non-empty (main returns before the comparison otherwise).
InitFrom(thresholds, osm_rows, wikidata_rows) ==
    /\ \E t \in thresholds : max_distance_km = t[1] /\ mismatch_threshold_km = t[2]
    /\ \E no \in 1..(MaxRows - 1) : \E nw \in 1..(MaxRows - no) :
          /\ osm_df \in {OsmFrame(r) : r \in [1..no -> osm_rows]}
          /\ wikidata_df \in {WikidataFrame(r) : r \in [1..nw -> wikidata_rows]}
    /\ cmp = NoCompare
    /\ fmo = NoFind
    /\ rerun = FALSE
    /\ given = [osm_df |-> osm_df, wikidata_df |-> wikidata_df]
    /\ OutsideReconciliationIdle

Init ==
    \/ InitFrom(DefaultThresholds, GeoOsmRows, GeoWikidataRows)
    \/ InitFrom(DefaultThresholds, NameOsmRows, NameWikidataRows)
    \/ InitFrom(DefaultThresholds, TagOsmRows, TagWikidataRows)
    \/ InitFrom(AnyThresholds, ThresholdOsmRows, ThresholdWikidataRows)
    \/ InitFrom(DefaultThresholds, RangeOsmRows, RangeWikidataRows)
    \/ InitFrom(DefaultThresholds, PunctuationOsmRows, PunctuationWikidataRows)
    \/ InitFrom(DefaultThresholds, CrossReferenceOsmRows, CrossReferenceWikidataRows)

(***************************************************************************)
(* Actions: the two calls of main, lines 424-428.                          *)
(***************************************************************************)
CompareOsmToWikidata ==
    LET r == compare_osm_to_wikidata(osm_df, wikidata_df,
                                     max_distance_km, mismatch_threshold_km)
    IN /\ osm_df' = r.osm_df
       /\ wikidata_df' = r.wikidata_df
       /\ cmp' = r.out
       /\ rerun' = (rerun \/ cmp.called)
       /\ UNCHANGED <<max_distance_km, mismatch_threshold_km, fmo, given>>
       /\ UNCHANGED outside_reconciliation

FindMissingInOsm ==
    LET r == find_missing_in_osm(wikidata_df, osm_df,
                                 max_distance_km, mismatch_threshold_km)
    IN /\ osm_df' = r.osm_df
       /\ wikidata_df' = r.wikidata_df
       /\ fmo' = r.out
       /\ rerun' = (rerun \/ fmo.called)
       /\ UNCHANGED <<max_distance_km, mismatch_threshold_km, cmp, given>>
       /\ UNCHANGED outside_reconciliation

Next == CompareOsmToWikidata \/ FindMissingInOsm

Spec == Init /\ [][Next]_vars

(***************************************************************************)
(* The two name normalizers on their own: each call hands the value on     *)
(* hand (the input at first, the last result afterwards) to one of them.   *)
(***************************************************************************)
NormalizerAlphabet == {"A", "a", "a_acute", " ", "-", "_"}

\* Every string of at most MaxLen characters, a missing value and a number.
NormalizerInputs ==
    {Str(s) : s \in UNION {[1..n -> NormalizerAlphabet] : n \in 0..MaxLen}}
        \cup {NaN, Number("1")}

\* The reconciliation has not been given any frame.
ReconciliationIdle ==
    /\ osm_df = OsmFrame(<<>>)
    /\ wikidata_df = WikidataFrame(<<>>)
    /\ \E t \in DefaultThresholds : max_distance_km = t[1] /\ mismatch_threshold_km = t[2]
    /\ cmp = NoCompare
    /\ fmo = NoFind
    /\ rerun = FALSE
    /\ given = [osm_df |-> osm_df, wikidata_df |-> wikidata_df]

NormalizerInit ==
    /\ \E x \in NormalizerInputs : NoNormalizerCall(x)
    /\ ReconciliationIdle
    /\ CacheIdle
    /\ MatcherIdle
    /\ CollectorIdle
    /\ NotesIdle
    /\ PagerIdle
    /\ TilesIdle

Normalize ==
    /\ arg' = result
    /\ result' = normalize(result)
    /\ before' = fn
    /\ fn' = "normalize"
    /\ UNCHANGED raw
    /\ UNCHANGED outside_normalizer

NormalizeName ==
    /\ arg' = result
    /\ result' = normalize_name(result)
    /\ before' = fn
    /\ fn' = "normalize_name"
    /\ UNCHANGED raw
    /\ UNCHANGED outside_normalizer

NormalizerNext == Normalize \/ NormalizeName

NormalizerSpec == NormalizerInit /\ [][NormalizerNext]_vars

(***************************************************************************)
(* Vocabulary of the properties, stated on the input columns of the two    *)
(* frames (which no call changes) and on the lists the calls produce.      *)
(***************************************************************************)
RowHasCoordinate(row) == row.latitude.isnan = FALSE /\ row.longitude.isnan = FALSE

\* The squared distance from row p to the nearest row of df that has a coordinate.
NearestDist2(p, df) ==
    LET ds == {Dist2(df.rows[j], p) : j \in {j \in 1..Len(df.rows) : RowHasCoordinate(df.rows[j])}}
    IN CHOOSE d \in ds : \A e \in ds : d <= e

SomeRowHasCoordinate(df) == \E j \in 1..Len(df.rows) : RowHasCoordinate(df.rows[j])

\* The records of a list made for source row i.
RecordsOf(list, i) == {k \in 1..Len(list) : list[k].src = i}

\* The verdict the lists of one direction give source row i.
VerdictOf(missing, mismatches, i) ==
    IF RecordsOf(missing, i) # {} THEN "MissingInTarget"
    ELSE IF RecordsOf(mismatches, i) # {} THEN "Mismatched"
    ELSE "Matched"

\* The verdict the thresholds ask for at squared distance d2.
VerdictAt(d2) ==
    IF DistGE(d2, max_distance_km) THEN "MissingInTarget"
    ELSE IF DistGT(d2, mismatch_threshold_km) THEN "Mismatched"
    ELSE "Matched"

\* An OSM row carries a cross-reference: a string value starting with Q under
\* a key containing "wikidata".
HasCrossReference(row) ==
    /\ row.tags.isdict
    /\ \E k \in 1..Len(row.tags.items) :
          /\ \E t \in 1..Len(row.tags.items[k].key) : row.tags.items[k].key[t] = "wikidata"
          /\ row.tags.items[k].value.isstr
          /\ Len(row.tags.items[k].value.chars) > 0
          /\ row.tags.items[k].value.chars[1] = "Q"

\* The normalized names of a frame's rows (name column col).
NormalizedNames(df, col) == {normalize_name(df.rows[j][col]) : j \in 1..Len(df.rows)}

EmptyName(cell) == cell.isstr = FALSE \/ cell.chars = <<>>

\* Source row i of the OSM frame is left in the candidate pool by both rules.
OsmCandidate(i) ==
    /\ ~HasCrossReference(osm_df.rows[i])
    /\ normalize_name(osm_df.rows[i].name) \notin NormalizedNames(wikidata_df, "plantLabel")

WikidataCandidate(i) ==
    normalize_name(wikidata_df.rows[i].plantLabel) \notin NormalizedNames(osm_df, "name")

OsmRows == 1..Len(osm_df.rows)
WikidataRows == 1..Len(wikidata_df.rows)

C2_CrossReferencedNeverReported ==
    cmp.called =>
        /\ \A k \in 1..Len(cmp.missing_in_wikidata) :
              /\ ~HasCrossReference(osm_df.rows[cmp.missing_in_wikidata[k].src])
              /\ osm_df.rows[cmp.missing_in_wikidata[k].src].tags.isdict =>
                    cmp.missing_in_wikidata[k].tags
                       = osm_df.rows[cmp.missing_in_wikidata[k].src].tags
        /\ \A k \in 1..Len(cmp.different_coordinates) :
              /\ ~HasCrossReference(osm_df.rows[cmp.different_coordinates[k].src])
              /\ cmp.different_coordinates[k].osm_coords
                    = Coords(osm_df.rows[cmp.different_coordinates[k].src])
        /\ \A k \in 1..Len(cmp.wikidata_missing_coordinates) :
              cmp.wikidata_missing_coordinates[k].name
                 = wikidata_df.rows[cmp.wikidata_missing_coordinates[k].src].plantLabel
        /\ \A i \in OsmRows :
              HasCrossReference(osm_df.rows[i]) =>
                  /\ RecordsOf(cmp.missing_list, i) = {}
                  /\ RecordsOf(cmp.diff_list, i) = {}

\* A cross-referenced OSM row with a coordinate at max_distance_km or more
\* from every Wikidata row, whose name matches none: it would be missing, as
\* another row of the same frame is.
C2_Witness ==
    /\ cmp.called
    /\ \E i \in OsmRows :
          /\ HasCrossReference(osm_df.rows[i])
          /\ RowHasCoordinate(osm_df.rows[i])
          /\ SomeRowHasCoordinate(wikidata_df)
          /\ normalize_name(osm_df.rows[i].name) \notin NormalizedNames(wikidata_df, "plantLabel")
          /\ VerdictAt(NearestDist2(osm_df.rows[i], wikidata_df)) = "MissingInTarget"
    /\ \E j \in OsmRows : RecordsOf(cmp.missing_list, j) # {}

(***************************************************************************)
(* C3: a source row whose non-empty normalized name equals the normalized  *)
(* name of some target row is the source of no missing or mismatch record; *)
(* and the name rule removes nothing else: a source row whose normalized   *)
(* name equals no target row's (substring or not) stays in the pool.       *)
(***************************************************************************)
C3_ExactNameExclusion ==
    /\ cmp.called =>
          \A i \in OsmRows :
              LET n == normalize_name(osm_df.rows[i].name)
              IN /\ (~EmptyName(n) /\ n \in NormalizedNames(wikidata_df, "plantLabel")) =>
                       /\ RecordsOf(cmp.missing_list, i) = {}
                       /\ RecordsOf(cmp.diff_list, i) = {}
                 /\ OsmCandidate(i) => \E k \in 1..Len(cmp.osm_filtered) : cmp.osm_filtered[k] = i
    /\ fmo.called =>
          \A i \in WikidataRows :
              LET n == normalize_name(wikidata_df.rows[i].plantLabel)
              IN /\ (~EmptyName(n) /\ n \in NormalizedNames(osm_df, "name")) =>
                       /\ RecordsOf(fmo.missing_list, i) = {}
                       /\ RecordsOf(fmo.diff_list, i) = {}
                 /\ WikidataCandidate(i) =>
                       \E k \in 1..Len(fmo.wikidata_filtered) : fmo.wikidata_filtered[k] = i

\* One OSM row is excluded by a Wikidata row whose raw name differs from its
\* own, and it would be missing otherwise; another OSM row, whose normalized
\* name has that Wikidata name as a proper part, is reported missing.
C3_Witness ==
    /\ cmp.called
    /\ SomeRowHasCoordinate(wikidata_df)
    /\ \E i \in OsmRows, j \in OsmRows, w \in WikidataRows :
          /\ osm_df.rows[i].name # wikidata_df.rows[w].plantLabel
          /\ normalize_name(osm_df.rows[i].name) = normalize_name(wikidata_df.rows[w].plantLabel)
          /\ ~EmptyName(normalize_name(osm_df.rows[i].name))
          /\ RowHasCoordinate(osm_df.rows[i])
          /\ VerdictAt(NearestDist2(osm_df.rows[i], wikidata_df)) = "MissingInTarget"
          /\ RecordsOf(cmp.missing_list, i) = {}
          /\ RecordsOf(cmp.missing_list, j) # {}
          /\ Len(normalize_name(osm_df.rows[j].name).chars)
                > Len(normalize_name(wikidata_df.rows[w].plantLabel).chars)
          /\ SubSeq(normalize_name(osm_df.rows[j].name).chars, 1,
                    Len(normalize_name(wikidata_df.rows[w].plantLabel).chars))
                = normalize_name(wikidata_df.rows[w].plantLabel).chars

(***************************************************************************)
(* C4: a source row whose normalized name is empty (no name, a name that   *)
(* is not a string, or an empty one) is never removed by the name rule: it *)
(* stays in the candidate pool unless it carries a cross-reference.        *)
(***************************************************************************)
C4_EmptyNameNeverExcluded ==
    /\ cmp.called =>
          \A i \in OsmRows :
              (EmptyName(normalize_name(osm_df.rows[i].name))
                  /\ ~HasCrossReference(osm_df.rows[i])) =>
                  \E k \in 1..Len(cmp.osm_filtered) : cmp.osm_filtered[k] = i
    /\ fmo.called =>
          \A i \in WikidataRows :
              EmptyName(normalize_name(wikidata_df.rows[i].plantLabel)) =>
                  \E k \in 1..Len(fmo.wikidata_filtered) : fmo.wikidata_filtered[k] = i

(***************************************************************************)
(* C5: a row without a coordinate (latitude or longitude missing) is the   *)
(* source of no missing or mismatch record, in either direction, and is no *)
(* point of the nearest-neighbour index: the index holds exactly the       *)
(* coordinates of the target rows that have both.                          *)
(***************************************************************************)
CoordinatesOfRowsWithBoth(df) ==
    LET Has(j) == RowHasCoordinate(df.rows[j])
        idx == SelectSeq([j \in 1..Len(df.rows) |-> j], Has)
    IN [k \in 1..Len(idx) |-> <<df.rows[idx[k]].latitude, df.rows[idx[k]].longitude>>]

C5_NoCoordinateNeverCompared ==
    /\ cmp.called =>
          /\ \A i \in OsmRows :
                ~RowHasCoordinate(osm_df.rows[i]) =>
                    /\ RecordsOf(cmp.missing_list, i) = {}
                    /\ RecordsOf(cmp.diff_list, i) = {}
                    /\ RecordsOf(cmp.missing_in_wikidata, i) = {}
                    /\ RecordsOf(cmp.different_coordinates, i) = {}
          /\ cmp.tree # <<>> => cmp.tree = CoordinatesOfRowsWithBoth(wikidata_df)
          /\ \A k \in 1..Len(cmp.missing_list) \cup 1..Len(cmp.diff_list) :
                \A list \in {cmp.missing_list, cmp.diff_list} :
                    k <= Len(list) => RowHasCoordinate(wikidata_df.rows[list[k].tgt])
    /\ fmo.called =>
          /\ \A i \in WikidataRows :
                ~RowHasCoordinate(wikidata_df.rows[i]) =>
                    /\ RecordsOf(fmo.missing_list, i) = {}
                    /\ RecordsOf(fmo.diff_list, i) = {}
                    /\ RecordsOf(fmo.missing_in_osm, i) = {}
                    /\ RecordsOf(fmo.different_coordinates, i) = {}
          /\ fmo.tree # <<>> => fmo.tree = CoordinatesOfRowsWithBoth(osm_df)
          /\ \A k \in 1..Len(fmo.missing_list) \cup 1..Len(fmo.diff_list) :
                \A list \in {fmo.missing_list, fmo.diff_list} :
                    k <= Len(list) => RowHasCoordinate(osm_df.rows[list[k].tgt])

\* Both calls built an index while the Wikidata frame holds a row without
\* (one of) its coordinates: a target kept out of the index in one
\* direction, a source kept out of the comparison in the other.
C5_Witness ==
    /\ cmp.called /\ fmo.called
    /\ cmp.tree # <<>> /\ fmo.tree # <<>>
    /\ \E i \in WikidataRows :
          /\ ~RowHasCoordinate(wikidata_df.rows[i])
          /\ WikidataCandidate(i)
    /\ Len(cmp.tree) < Len(wikidata_df.rows)

(***************************************************************************)
(* C6 as claimed: every OSM source candidate without a coordinate has      *)
(* exactly one record in the missing-coordinates collection.               *)
(***************************************************************************)
C6_SourceCandidateEmittedOnce ==
    cmp.called =>
        \A i \in OsmRows :
            (OsmCandidate(i) /\ ~RowHasCoordinate(osm_df.rows[i])) =>
                Cardinality({k \in 1..Len(cmp.wikidata_missing_coordinates) :
                                cmp.wikidata_missing_coordinates[k].name = osm_df.rows[i].name}) = 1

(***************************************************************************)
(* C6 as amended: wikidata_missing_coordinates reports the Wikidata rows   *)
(* without a coordinate: each of them has exactly one record with its      *)
(* name, rows sharing a name share the record of the first of them, rows   *)
(* with distinct names have distinct records, and every record is one of   *)
(* such a row.                                                             *)
(***************************************************************************)
C6_TargetWithoutCoordinateEmittedOncePerName ==
    cmp.called =>
        LET out == cmp.wikidata_missing_coordinates
            NoCoordinate == {i \in WikidataRows : ~RowHasCoordinate(wikidata_df.rows[i])}
        IN /\ \A i \in NoCoordinate :
                 Cardinality({k \in 1..Len(out) : out[k].name = wikidata_df.rows[i].plantLabel}) = 1
           /\ \A k \in 1..Len(out) :
                 /\ out[k].src \in NoCoordinate
                 /\ out[k].name = wikidata_df.rows[out[k].src].plantLabel
                 /\ \A j \in NoCoordinate :
                       wikidata_df.rows[j].plantLabel = out[k].name => out[k].src <= j
           /\ Len(out) = Cardinality({wikidata_df.rows[i].plantLabel : i \in NoCoordinate})

\* Two Wikidata rows without coordinates and with distinct names, both
\* reported, next to an OSM candidate without a coordinate that is not.
C6_Witness ==
    /\ cmp.called
    /\ Len(cmp.wikidata_missing_coordinates) = 2
    /\ \E i \in WikidataRows, j \in WikidataRows :
          /\ i # j
          /\ ~RowHasCoordinate(wikidata_df.rows[i])
          /\ ~RowHasCoordinate(wikidata_df.rows[j])
          /\ wikidata_df.rows[i].plantLabel # wikidata_df.rows[j].plantLabel

\* Two Wikidata rows without coordinates that share a name: one record.
C6_WitnessSharedName ==
    /\ cmp.called
    /\ Len(cmp.wikidata_missing_coordinates) = 1
    /\ Len(cmp.nocoord_list) = 2

(***************************************************************************)
(* C7 as claimed: when no target row has a coordinate, every source        *)
(* candidate with a coordinate is reported in the missing list.            *)
(***************************************************************************)
C7_EmptyIndexAllMissing ==
    /\ (cmp.called /\ ~SomeRowHasCoordinate(wikidata_df)) =>
          \A i \in OsmRows :
              (OsmCandidate(i) /\ RowHasCoordinate(osm_df.rows[i])) =>
                  \E k \in 1..Len(cmp.missing_in_wikidata) :
                      cmp.missing_in_wikidata[k].name = osm_df.rows[i].name
    /\ (fmo.called /\ ~SomeRowHasCoordinate(osm_df)) =>
          \A i \in WikidataRows :
              (WikidataCandidate(i) /\ RowHasCoordinate(wikidata_df.rows[i])) =>
                  \E k \in 1..Len(fmo.missing_in_osm) :
                      fmo.missing_in_osm[k].name = wikidata_df.rows[i].plantLabel

(***************************************************************************)
(* C8: a call repeated on the same frames with the same thresholds returns *)
(* the report of the call before it: the same records in the same order in *)
(* every output collection, whatever calls were made in between.           *)
(***************************************************************************)
CompareReport(c) ==
    <<c.missing_in_wikidata, c.different_coordinates, c.wikidata_missing_coordinates>>

FindReport(f) == <<f.missing_in_osm, f.different_coordinates>>

C8_RepeatedRunSameReport ==
    [][/\ (cmp.called /\ cmp'.called) => CompareReport(cmp') = CompareReport(cmp)
       /\ (fmo.called /\ fmo'.called) => FindReport(fmo') = FindReport(fmo)]_vars

\* A call was repeated after both functions had run on the frames, and the
\* reports are not all empty.
C8_Witness ==
    /\ rerun
    /\ cmp.called /\ fmo.called
    /\ {"normalized_name", "wikidata_id"} \subseteq osm_df.cols
    /\ cmp.missing_in_wikidata # <<>>
    /\ fmo.missing_in_osm # <<>>
    /\ \E i \in OsmRows : HasCrossReference(osm_df.rows[i])

(***************************************************************************)
(* C9: a final missing or mismatch list holds at most one record per name, *)
(* the record kept for a name is the first one with that name in source    *)
(* order, every name of the list before deduplication is still there, and  *)
(* the kept records are in their original order.                           *)
(***************************************************************************)
\* final is list without the records whose name occurred earlier in list.
FirstOfEachName(list, final) ==
    LET first == {k \in 1..Len(list) : \A j \in 1..Len(list) : j < k => list[j].name # list[k].name}
    IN /\ Len(final) = Cardinality(first)
       /\ \A a \in 1..Len(final), b \in 1..Len(final) : a # b => final[a].name # final[b].name
       /\ \A k \in first : \E a \in 1..Len(final) : final[a] = list[k]
       /\ \A a \in 1..Len(final), b \in 1..Len(final) :
             a < b => \E k \in first, l \in first : k < l /\ list[k] = final[a] /\ list[l] = final[b]

C9_DeduplicatedByName ==
    /\ cmp.called =>
          /\ FirstOfEachName(cmp.missing_list, cmp.missing_in_wikidata)
          /\ FirstOfEachName(cmp.diff_list, cmp.different_coordinates)
    /\ fmo.called =>
          /\ FirstOfEachName(fmo.missing_list, fmo.missing_in_osm)
          /\ FirstOfEachName(fmo.diff_list, fmo.different_coordinates)

\* Two missing OSM rows share a name and differ in their coordinates: the
\* record of the first is the one returned.
C9_Witness ==
    /\ cmp.called
    /\ Len(cmp.missing_list) = 2
    /\ cmp.missing_list[1].name = cmp.missing_list[2].name
    /\ <<cmp.missing_list[1].latitude, cmp.missing_list[1].longitude>>
          # <<cmp.missing_list[2].latitude, cmp.missing_list[2].longitude>>
    /\ Len(cmp.missing_in_wikidata) = 1
    /\ cmp.missing_in_wikidata[1].latitude = cmp.missing_list[1].latitude
    /\ cmp.missing_in_wikidata[1].longitude = cmp.missing_list[1].longitude

(***************************************************************************)
(* C10 as claimed: no call returns a report when mismatch_threshold_km >=  *)
(* max_distance_km or when one of the thresholds is not positive.          *)
(***************************************************************************)
ValidThresholds ==
    /\ max_distance_km > 0
    /\ mismatch_threshold_km > 0
    /\ mismatch_threshold_km < max_distance_km

C10_InvalidThresholdsRefused ==
    (cmp.called \/ fmo.called) => ValidThresholds

(***************************************************************************)
(* C11 as claimed: a row whose latitude is outside [-90, 90] or whose      *)
(* longitude is outside [-180, 180] is handled as a row without a          *)
(* coordinate: it is the source of no missing or mismatch record, it is    *)
(* not a row of the nearest-neighbour index, and as a Wikidata row it is   *)
(* reported in wikidata_missing_coordinates.                               *)
(***************************************************************************)
OutOfRange(row) ==
    /\ RowHasCoordinate(row)
    /\ \/ row.latitude.val > 90 \/ row.latitude.val < -90
       \/ row.longitude.val > 180 \/ row.longitude.val < -180

C11_OutOfRangeCoordinateIsAbsent ==
    /\ cmp.called =>
          /\ \A i \in OsmRows :
                OutOfRange(osm_df.rows[i]) =>
                    /\ RecordsOf(cmp.missing_in_wikidata, i) = {}
                    /\ RecordsOf(cmp.different_coordinates, i) = {}
          /\ \A i \in WikidataRows :
                OutOfRange(wikidata_df.rows[i]) =>
                    /\ \A k \in 1..Len(cmp.wikidata_with_coords) : cmp.wikidata_with_coords[k] # i
                    /\ RecordsOf(cmp.nocoord_list, i) # {}
    /\ fmo.called =>
          /\ \A i \in WikidataRows :
                OutOfRange(wikidata_df.rows[i]) =>
                    /\ RecordsOf(fmo.missing_in_osm, i) = {}
                    /\ RecordsOf(fmo.different_coordinates, i) = {}
          /\ \A i \in OsmRows :
                OutOfRange(osm_df.rows[i]) =>
                    \A k \in 1..Len(fmo.osm_with_coords) : fmo.osm_with_coords[k] # i

(***************************************************************************)
(* C12: a normalizer applied to its own result returns it unchanged: a     *)
(* second call of normalize right after a call of normalize, and a second  *)
(* call of normalize_name right after a call of normalize_name, return     *)
(* their argument.                                                         *)
(***************************************************************************)
C12_NormalizationIdempotent ==
    (fn # "none" /\ before = fn) => result = arg

\* normalize was applied twice in a row to a string with an accent, a
\* punctuation mark and an upper-case letter, which the first call changed.
C12_Witness ==
    /\ fn = "normalize" /\ before = "normalize"
    /\ raw.isstr
    /\ \E i \in 1..Len(raw.chars), j \in 1..Len(raw.chars), k \in 1..Len(raw.chars) :
          raw.chars[i] = "a_acute" /\ raw.chars[j] = "-" /\ raw.chars[k] = "A"
    /\ result = Str(<<"a", "a">>)

\* normalize_name was applied twice in a row to a string it changed.
C12_WitnessNormalizeName ==
    /\ fn = "normalize_name" /\ before = "normalize_name"
    /\ raw = Str(<<" ", "A", " ">>)
    /\ result = Str(<<"a">>)

(***************************************************************************)
(* C13 as claimed: a normalizer called with a value that is not a string   *)
(* (a missing value, a number) returns the empty string; for normalize and *)
(* for normalize_name, which builds the normalized_name column.            *)
(***************************************************************************)
C13_NonStringGivesEmptyString ==
    (fn # "none" /\ ~arg.isstr) => result = Str(<<>>)

(***************************************************************************)
(* C14 as claimed: the normalized_name of a row is its name with accents   *)
(* decomposed, non-ASCII characters dropped, characters that are neither   *)
(* word characters nor whitespace removed, lower-cased and trimmed; two    *)
(* rows of the two frames whose names are equal after that transform have  *)
(* the same normalized_name, and the source row is excluded.               *)
(***************************************************************************)
C14_KeyIsSpecifiedTransform ==
    /\ cmp.called =>
          \A i \in OsmRows :
              /\ osm_df.rows[i].normalized_name = normalize(osm_df.rows[i].name)
              /\ \A w \in WikidataRows :
                    (/\ normalize(osm_df.rows[i].name) = normalize(wikidata_df.rows[w].plantLabel)
                     /\ normalize(osm_df.rows[i].name) # Str(<<>>)) =>
                        /\ osm_df.rows[i].normalized_name = wikidata_df.rows[w].normalized_name
                        /\ \A k \in 1..Len(cmp.osm_filtered) : cmp.osm_filtered[k] # i
    /\ fmo.called =>
          \A w \in WikidataRows :
              /\ wikidata_df.rows[w].normalized_name = normalize(wikidata_df.rows[w].plantLabel)
              /\ \A i \in OsmRows :
                    (/\ normalize(osm_df.rows[i].name) = normalize(wikidata_df.rows[w].plantLabel)
                     /\ normalize(osm_df.rows[i].name) # Str(<<>>)) =>
                        /\ osm_df.rows[i].normalized_name = wikidata_df.rows[w].normalized_name
                        /\ \A k \in 1..Len(fmo.wikidata_filtered) : fmo.wikidata_filtered[k] # w

(***************************************************************************)
(* C14 as amended: the normalized_name of a row is its name lower-cased,   *)
(* with every run of whitespace between two words replaced by one space    *)
(* and the whitespace around it removed; every other character (accented   *)
(* letters, punctuation) is kept.  The name rule compares these keys: a    *)
(* source row stays in the pool exactly when its key is the key of no      *)
(* target row (and, for an OSM row, it has no cross-reference).            *)
(***************************************************************************)
NotSpace(c) == c # " "

\* The position in s of its n-th character that is not a space.
NthNonSpace(s, n) ==
    CHOOSE p \in 1..Len(s) :
        /\ NotSpace(s[p])
        /\ Cardinality({q \in 1..p : NotSpace(s[q])}) = n

AfterSpace(s, n) == NthNonSpace(s, n) > 1 /\ s[NthNonSpace(s, n) - 1] = " "

LowerCase(c) == IF c = "A" THEN "a" ELSE IF c = "B" THEN "b" ELSE IF c = "C" THEN "c" ELSE c

\* key is the lower-cased, whitespace-collapsed form of the cell name.
IsKeyOf(key, name) ==
    IF name.isstr = FALSE THEN key = name
    ELSE LET k == key.chars
             r == SelectSeq(name.chars, NotSpace)
         IN /\ key.isstr
            /\ SelectSeq(k, NotSpace) = [n \in 1..Len(r) |-> LowerCase(r[n])]
            /\ k # <<>> => (k[1] # " " /\ k[Len(k)] # " ")
            /\ \A p \in 1..(Len(k) - 1) : ~(k[p] = " " /\ k[p + 1] = " ")
            /\ \A n \in 2..Len(r) : AfterSpace(k, n) <=> AfterSpace(name.chars, n)

KeysOf(df) == {df.rows[j].normalized_name : j \in 1..Len(df.rows)}

C14_KeyIsLowerCasedCollapsedName ==
    /\ cmp.called =>
          /\ \A i \in OsmRows : IsKeyOf(osm_df.rows[i].normalized_name, osm_df.rows[i].name)
          /\ \A w \in WikidataRows :
                IsKeyOf(wikidata_df.rows[w].normalized_name, wikidata_df.rows[w].plantLabel)
          /\ \A i \in OsmRows :
                (\E k \in 1..Len(cmp.osm_filtered) : cmp.osm_filtered[k] = i)
                    <=> (/\ ~HasCrossReference(osm_df.rows[i])
                         /\ osm_df.rows[i].normalized_name \notin KeysOf(wikidata_df))
    /\ fmo.called =>
          /\ \A i \in OsmRows : IsKeyOf(osm_df.rows[i].normalized_name, osm_df.rows[i].name)
          /\ \A w \in WikidataRows :
                IsKeyOf(wikidata_df.rows[w].normalized_name, wikidata_df.rows[w].plantLabel)
          /\ \A w \in WikidataRows :
                (\E k \in 1..Len(fmo.wikidata_filtered) : fmo.wikidata_filtered[k] = w)
                    <=> wikidata_df.rows[w].normalized_name \notin KeysOf(osm_df)

\* One OSM row differs from the Wikidata row by letter case or surrounding
\* whitespace and is excluded; another differs from it by an accent or a
\* punctuation mark only, keeps a key of its own and is reported missing.
C14_Witness ==
    /\ cmp.called
    /\ \E i \in OsmRows, j \in OsmRows, w \in WikidataRows :
          /\ osm_df.rows[i].name # wikidata_df.rows[w].plantLabel
          /\ osm_df.rows[i].normalized_name = wikidata_df.rows[w].normalized_name
          /\ \A k \in 1..Len(cmp.osm_filtered) : cmp.osm_filtered[k] # i
          /\ normalize(osm_df.rows[j].name) = normalize(wikidata_df.rows[w].plantLabel)
          /\ osm_df.rows[j].normalized_name # wikidata_df.rows[w].normalized_name
          /\ RecordsOf(cmp.missing_in_wikidata, j) # {}

(***************************************************************************)
(* C15 as claimed: no call changes one of the two frames it is given: the  *)
(* columns, the rows and every cell of osm_df and wikidata_df are after    *)
(* the call what they were before it.                                      *)
(***************************************************************************)
C15_InputFramesUnchanged ==
    [][osm_df' = osm_df /\ wikidata_df' = wikidata_df]_vars

(***************************************************************************)
(* C16: a source row is classified on its planar distance to the nearest   *)
(* target row with a coordinate: the target of a record is at most as far  *)
(* from the source as every other target row with a coordinate, a mismatch *)
(* record carries that distance, a missing record is made when it is at    *)
(* least max_distance_km, a mismatch record when it is between the         *)
(* thresholds, and a compared source row has no record when it is at most  *)
(* mismatch_threshold_km (and below max_distance_km), however far the      *)
(* other target rows are.                                                  *)
(***************************************************************************)
\* (lat1 - lat2)^2 + (lon1 - lon2)^2
PlanarDistance2(a, b) ==
    LET dlat == a.latitude.val - b.latitude.val
        dlon == a.longitude.val - b.longitude.val
    IN dlat * dlat + dlon * dlon

\* t is a row of df with a coordinate, and no such row is nearer to p.
IsNearestIn(t, p, df) ==
    /\ t \in 1..Len(df.rows)
    /\ RowHasCoordinate(df.rows[t])
    /\ \A j \in 1..Len(df.rows) :
          RowHasCoordinate(df.rows[j]) =>
              PlanarDistance2(df.rows[t], p) <= PlanarDistance2(df.rows[j], p)

\* The lists classify source row p (label i) on the distance to a nearest row of df.
ClassifiedOnNearest(missing, mismatches, i, p, df) ==
    /\ \A k \in RecordsOf(missing, i) :
          /\ IsNearestIn(missing[k].tgt, p, df)
          /\ DistGE(PlanarDistance2(df.rows[missing[k].tgt], p), max_distance_km)
    /\ \A k \in RecordsOf(mismatches, i) :
          /\ IsNearestIn(mismatches[k].tgt, p, df)
          /\ mismatches[k].difference_km2 = PlanarDistance2(df.rows[mismatches[k].tgt], p)
          /\ ~DistGE(mismatches[k].difference_km2, max_distance_km)
          /\ DistGT(mismatches[k].difference_km2, mismatch_threshold_km)
    /\ (RecordsOf(missing, i) = {} /\ RecordsOf(mismatches, i) = {}) =>
          \E t \in 1..Len(df.rows) :
              /\ IsNearestIn(t, p, df)
              /\ ~DistGE(PlanarDistance2(df.rows[t], p), max_distance_km)
              /\ ~DistGT(PlanarDistance2(df.rows[t], p), mismatch_threshold_km)

Labels(idx) == {idx[k] : k \in 1..Len(idx)}

C17_IndexHoldsTargetCandidates ==
    /\ cmp.called =>
          Labels(cmp.wikidata_with_coords)
             = {w \in WikidataRows : RowHasCoordinate(wikidata_df.rows[w]) /\ WikidataCandidate(w)}
    /\ fmo.called =>
          Labels(fmo.osm_with_coords)
             = {i \in OsmRows : RowHasCoordinate(osm_df.rows[i]) /\ OsmCandidate(i)}

(***************************************************************************)
(* C17 as amended: the nearest-neighbour index of a direction holds        *)
(* exactly the target rows that have a coordinate, in frame order, whether *)
(* or not they carry a cross-reference or share their name with a row of   *)
(* the other frame; the target of every record is one of them.             *)
(***************************************************************************)
Increasing(idx) == \A a \in 1..Len(idx), b \in 1..Len(idx) : a < b => idx[a] < idx[b]

C17_IndexHoldsEveryTargetWithCoordinate ==
    /\ cmp.called =>
          /\ Labels(cmp.wikidata_with_coords)
                = {w \in WikidataRows : RowHasCoordinate(wikidata_df.rows[w])}
          /\ Increasing(cmp.wikidata_with_coords)
          /\ cmp.tree # <<>> => Len(cmp.tree) = Len(cmp.wikidata_with_coords)
          /\ \A k \in 1..Len(cmp.missing_list) :
                cmp.missing_list[k].tgt \in Labels(cmp.wikidata_with_coords)
          /\ \A k \in 1..Len(cmp.diff_list) :
                cmp.diff_list[k].tgt \in Labels(cmp.wikidata_with_coords)
    /\ fmo.called =>
          /\ Labels(fmo.osm_with_coords) = {i \in OsmRows : RowHasCoordinate(osm_df.rows[i])}
          /\ Increasing(fmo.osm_with_coords)
          /\ fmo.tree # <<>> => Len(fmo.tree) = Len(fmo.osm_with_coords)
          /\ \A k \in 1..Len(fmo.missing_list) :
                fmo.missing_list[k].tgt \in Labels(fmo.osm_with_coords)
          /\ \A k \in 1..Len(fmo.diff_list) :
                fmo.diff_list[k].tgt \in Labels(fmo.osm_with_coords)

\* A Wikidata row has no record because its nearest OSM row, within
\* mismatch_threshold_km, is one with a cross-reference, while every OSM
\* row without a cross-reference is at max_distance_km or more.
C17_Witness ==
    /\ fmo.called
    /\ \E w \in WikidataRows, i \in OsmRows :
          /\ WikidataCandidate(w)
          /\ RowHasCoordinate(wikidata_df.rows[w])
          /\ HasCrossReference(osm_df.rows[i])
          /\ IsNearestIn(i, wikidata_df.rows[w], osm_df)
          /\ ~DistGT(PlanarDistance2(osm_df.rows[i], wikidata_df.rows[w]), mismatch_threshold_km)
          /\ \E j \in OsmRows :
                /\ ~HasCrossReference(osm_df.rows[j])
                /\ RowHasCoordinate(osm_df.rows[j])
          /\ \A j \in OsmRows :
                (~HasCrossReference(osm_df.rows[j]) /\ RowHasCoordinate(osm_df.rows[j])) =>
                    DistGE(PlanarDistance2(osm_df.rows[j], wikidata_df.rows[w]), max_distance_km)
          /\ RecordsOf(fmo.missing_list, w) = {}
          /\ RecordsOf(fmo.diff_list, w) = {}

(***************************************************************************)
(* C18: in every list a call produces, before and after deduplication, the *)
(* records are in the order of the frame rows they were made for: a record *)
(* made for an earlier row of the source frame comes first.                *)
(***************************************************************************)
InSourceOrder(list) ==
    \A a \in 1..Len(list), b \in 1..Len(list) : a < b => list[a].src < list[b].src

C18_RecordsInSourceOrder ==
    /\ cmp.called =>
          /\ InSourceOrder(cmp.missing_list)
          /\ InSourceOrder(cmp.diff_list)
          /\ InSourceOrder(cmp.nocoord_list)
          /\ InSourceOrder(cmp.missing_in_wikidata)
          /\ InSourceOrder(cmp.different_coordinates)
          /\ InSourceOrder(cmp.wikidata_missing_coordinates)
    /\ fmo.called =>
          /\ InSourceOrder(fmo.missing_list)
          /\ InSourceOrder(fmo.diff_list)
          /\ InSourceOrder(fmo.missing_in_osm)
          /\ InSourceOrder(fmo.different_coordinates)

\* Two OSM rows named "B" and "A", in that order, are both reported missing:
\* the returned list has "B" first, which a sort by name would not.
C18_Witness ==
    /\ cmp.called
    /\ Len(cmp.missing_in_wikidata) = 2
    /\ cmp.missing_in_wikidata[1].name = Str(<<"B">>)
    /\ cmp.missing_in_wikidata[2].name = Str(<<"A">>)
    /\ cmp.missing_in_wikidata[1].src = 1
    /\ cmp.missing_in_wikidata[2].src = 2

(***************************************************************************)
(* C19: the report of a call does not depend on the calls made before it   *)
(* on the same two frames: the report find_missing_in_osm returned is the  *)
(* one it returns on the frames as they were given, before any call, and   *)
(* so is the report of compare_osm_to_wikidata.                            *)
(***************************************************************************)
C19_DirectionsIndependent ==
    /\ fmo.called =>
          FindReport(fmo)
             = FindReport(find_missing_in_osm(given.wikidata_df, given.osm_df,
                                              max_distance_km, mismatch_threshold_km).out)
    /\ cmp.called =>
          CompareReport(cmp)
             = CompareReport(compare_osm_to_wikidata(given.osm_df, given.wikidata_df,
                                                     max_distance_km, mismatch_threshold_km).out)

\* Each function was called once, both on frames that hold an OSM row with
\* a cross-reference, and both reported something: the second of the two
\* calls got frames the first had added its columns to.
C19_Witness ==
    /\ ~rerun
    /\ cmp.called /\ fmo.called
    /\ given.osm_df # osm_df
    /\ given.wikidata_df # wikidata_df
    /\ "wikidata_id" \in osm_df.cols
    /\ \E i \in OsmRows : HasCrossReference(osm_df.rows[i]) /\ RowHasCoordinate(osm_df.rows[i])
    /\ fmo.missing_in_osm # <<>>
    /\ cmp.missing_in_wikidata # <<>>

(***************************************************************************)
(* C20 as claimed: when two source rows with distinct names are classified *)
(* as missing or mismatched against the same nearest target row, each of   *)
(* them has a record of its own in the returned lists.                     *)
(***************************************************************************)
\* The targets of the records the classification loop made for source row i.
TargetsOf(missing, mismatches, i) ==
    {missing[k].tgt : k \in RecordsOf(missing, i)}
        \cup {mismatches[k].tgt : k \in RecordsOf(mismatches, i)}

C20_EachSourceKeepsItsRecord ==
    /\ cmp.called =>
          \A i \in OsmRows, j \in OsmRows :
              (/\ osm_df.rows[i].name # osm_df.rows[j].name
               /\ TargetsOf(cmp.missing_list, cmp.diff_list, i) # {}
               /\ TargetsOf(cmp.missing_list, cmp.diff_list, i)
                     = TargetsOf(cmp.missing_list, cmp.diff_list, j)) =>
                  /\ RecordsOf(cmp.missing_in_wikidata, i) # {}
                        \/ RecordsOf(cmp.different_coordinates, i) # {}
                  /\ RecordsOf(cmp.missing_in_wikidata, j) # {}
                        \/ RecordsOf(cmp.different_coordinates, j) # {}
    /\ fmo.called =>
          \A i \in WikidataRows, j \in WikidataRows :
              (/\ wikidata_df.rows[i].plantLabel # wikidata_df.rows[j].plantLabel
               /\ TargetsOf(fmo.missing_list, fmo.diff_list, i) # {}
               /\ TargetsOf(fmo.missing_list, fmo.diff_list, i)
                     = TargetsOf(fmo.missing_list, fmo.diff_list, j)) =>
                  /\ RecordsOf(fmo.missing_in_osm, i) # {}
                        \/ RecordsOf(fmo.different_coordinates, i) # {}
                  /\ RecordsOf(fmo.missing_in_osm, j) # {}
                        \/ RecordsOf(fmo.different_coordinates, j) # {}

(***************************************************************************)
(* C21: after compare_osm_to_wikidata the wikidata_id of an OSM row is set *)
(* exactly when its tags are a mapping with a string value starting with   *)
(* "Q" under a key containing "wikidata"; such a row is left out of the    *)
(* candidate pool, and a row without tags, with tags that are no mapping,  *)
(* or with only empty, non-string or otherwise malformed values under such *)
(* keys stays in it unless the name rule removes it.                       *)
(***************************************************************************)
C21_CrossReferenceRule ==
    cmp.called =>
        \A i \in OsmRows :
            /\ osm_df.rows[i].wikidata_id.isstr <=> HasCrossReference(osm_df.rows[i])
            /\ HasCrossReference(osm_df.rows[i]) =>
                  /\ \A k \in 1..Len(cmp.osm_filtered) : cmp.osm_filtered[k] # i
                  /\ \E k \in 1..Len(osm_df.rows[i].tags.items) :
                        osm_df.rows[i].tags.items[k].value = osm_df.rows[i].wikidata_id
            /\ (/\ ~HasCrossReference(osm_df.rows[i])
                /\ normalize_name(osm_df.rows[i].name)
                      \notin NormalizedNames(wikidata_df, "plantLabel")) =>
                  \E k \in 1..Len(cmp.osm_filtered) : cmp.osm_filtered[k] = i

\* One OSM row has a malformed value under "wikidata" and is reported
\* missing; another has a well-formed value under a longer key, after a
\* malformed one, and is excluded.
C21_Witness ==
    /\ cmp.called
    /\ \E i \in OsmRows, j \in OsmRows :
          /\ osm_df.rows[i].tags.isdict
          /\ Len(osm_df.rows[i].tags.items) = 1
          /\ osm_df.rows[i].tags.items[1].key = <<"wikidata">>
          /\ ~HasCrossReference(osm_df.rows[i])
          /\ RecordsOf(cmp.missing_in_wikidata, i) # {}
          /\ Len(osm_df.rows[j].tags.items) = 2
          /\ osm_df.rows[j].wikidata_id = Str(<<"Q">>)
          /\ RecordsOf(cmp.missing_list, j) = {}

(***************************************************************************)
(* fetch_wiki_info_by_country_v2.py: the pickle cache and the two fetch    *)
(* functions that use it.                                                  *)
(*                                                                         *)
(* A frame is the sequence of its rows (an empty frame has no columns).    *)
(* cache maps a cache name to [exists, data]: whether the file is there    *)
(* and the frame pickled in it.  remote maps a cache name to the bindings  *)
(* the endpoint returns now for the query behind that name, in order.      *)
(* fetched keeps, per cache name, what the last call of the fetch function *)
(* did: whether the flag was on, whether a cache file existed, whether the *)
(* endpoint was queried, whether the call returned, and the frame it       *)
(* returned.                                                               *)
(***************************************************************************)
\* limit = 500 in the code; the pages of the model are shorter.
limit == 2

CountsName == "counts_T"
EntitiesName == "entities_T_Q1"
CacheNames == {CountsName, EntitiesName}

NoFile == [exists |-> FALSE, data |-> <<>>]

\* load_cache(name): [hit, data]; hit is "the result is not None".
load_cacheIgnoringReset(reset, files, name) ==
    IF files[name].exists THEN [hit |-> TRUE, data |-> files[name].data]
    ELSE [hit |-> FALSE, data |-> <<>>]

load_cache(reset, files, name) ==
    IF reset THEN [hit |-> FALSE, data |-> <<>>]
    ELSE IF files[name].exists THEN [hit |-> TRUE, data |-> files[name].data]
    ELSE [hit |-> FALSE, data |-> <<>>]

\* save_cache(name, data): the cache directory afterwards.
save_cache(files, name, data) == [files EXCEPT ![name] = [exists |-> TRUE, data |-> data]]

\* The bindings the endpoint returns for OFFSET offset LIMIT limit.
Page(bindings, offset) ==
    SubSeq(bindings, offset + 1,
           IF offset + limit < Len(bindings) THEN offset + limit ELSE Len(bindings))

\* A row of the counts frame, lines 125-129.
CountRow(item) == [country |-> item.country, count |-> item.count]

\* The while loop of fetch_entity_counts, lines 102-131: all_rows at the break.
RECURSIVE FetchCountPages(_, _, _)
FetchCountPages(bindings, offset, all_rows) ==
    LET data == Page(bindings, offset)
    IN IF data = <<>> THEN all_rows
       ELSE FetchCountPages(bindings, offset + limit,
                            all_rows \o [k \in 1..Len(data) |-> CountRow(data[k])])

HasPositiveCount(row) == row.count > 0

\* Lines 136-146: what fetch_entity_counts returns for the frame df.
CountsReturned(df) == IF df = <<>> THEN <<>> ELSE SelectSeq(df, HasPositiveCount)

\* The WKT value of ?coordinates: none, "Point(lon lat)" or something else.
NoCoordinates == [kind |-> "none", lon |-> 0, lat |-> 0]
Point(lon, lat) == [kind |-> "point", lon |-> lon, lat |-> lat]
MalformedPoint == [kind |-> "malformed", lon |-> 0, lat |-> 0]

\* A row of the entities frame, lines 187-205: latitude and longitude are
\* set together, from a well-formed point only.
EntityRow(item, country_qid) ==
    [country_qid |-> country_qid,
     entity |-> item.item,
     type |-> Str(<<"T">>),
     latitude |-> IF item.coordinates.kind = "point" THEN Float(item.coordinates.lat) ELSE NaNf,
     longitude |-> IF item.coordinates.kind = "point" THEN Float(item.coordinates.lon) ELSE NaNf]

EntityRows(bindings, country_qid) ==
    [k \in 1..Len(bindings) |-> EntityRow(bindings[k], country_qid)]

NoFetch ==
    [called |-> FALSE, reset |-> FALSE, had_entry |-> FALSE, entry |-> <<>>,
     queried |-> FALSE, returned |-> FALSE, value |-> <<>>]

\* The call found its frame in the cache and did not query.
FromCache(reset, files, name, value) ==
    [called |-> TRUE, reset |-> reset, had_entry |-> files[name].exists,
     entry |-> files[name].data, queried |-> FALSE, returned |-> TRUE, value |-> value]

\* The call queried the endpoint; returned is FALSE when raise_for_status raised.
FromRemote(reset, files, name, returned, value) ==
    [called |-> TRUE, reset |-> reset, had_entry |-> files[name].exists,
     entry |-> files[name].data, queried |-> TRUE, returned |-> returned, value |-> value]

\* Answers of the endpoint to the counts query and to the entities query.
CountsAnswers ==
    {<<>>,
     <<[country |-> "Q1", count |-> 3]>>,
     <<[country |-> "Q1", count |-> 3], [country |-> "Q2", count |-> 2],
       [country |-> "Q3", count |-> 1]>>}
EntitiesAnswers ==
    {<<>>,
     <<[item |-> "e1", coordinates |-> Point(1, 2)]>>,
     <<[item |-> "e1", coordinates |-> Point(1, 2)], [item |-> "e2", coordinates |-> NoCoordinates],
       [item |-> "e3", coordinates |-> MalformedPoint]>>}

Answers(counts, entities) ==
    [name \in CacheNames |-> IF name = CountsName THEN counts ELSE entities]

CacheInit ==
    /\ RESET_CACHE \in BOOLEAN
    /\ cache = [name \in CacheNames |-> NoFile]
    /\ \E c \in CountsAnswers, e \in EntitiesAnswers : remote = Answers(c, e)
    /\ fetched = [name \in CacheNames |-> NoFetch]
    /\ ReconciliationIdle
    /\ NormalizerIdle
    /\ MatcherIdle
    /\ CollectorIdle
    /\ NotesIdle
    /\ PagerIdle
    /\ TilesIdle

\* fetch_entity_counts(type_qid, type_label); answers is FALSE when the
\* endpoint answers a request with an error status.
FetchEntityCounts ==
    \E answers \in BOOLEAN :
        LET cached == load_cache(RESET_CACHE, cache, CountsName)
            df == FetchCountPages(remote[CountsName], 0, <<>>)
        IN /\ IF cached.hit
              THEN /\ fetched' = [fetched EXCEPT ![CountsName] =
                                     FromCache(RESET_CACHE, cache, CountsName,
                                               CountsReturned(cached.data))]
                   /\ UNCHANGED cache
              ELSE IF answers
              THEN /\ cache' = save_cache(cache, CountsName, df)
                   /\ fetched' = [fetched EXCEPT ![CountsName] =
                                     FromRemote(RESET_CACHE, cache, CountsName, TRUE,
                                                CountsReturned(df))]
              ELSE /\ fetched' = [fetched EXCEPT ![CountsName] =
                                     FromRemote(RESET_CACHE, cache, CountsName, FALSE, <<>>)]
                   /\ UNCHANGED cache
           /\ UNCHANGED <<RESET_CACHE, remote>>
           /\ UNCHANGED outside_cache

\* fetch_entities_by_country(type_qid, type_label, "Q1", country_label)
FetchEntitiesByCountry ==
    \E answers \in BOOLEAN :
        LET cached == IF ~RESET_CACHE THEN load_cache(RESET_CACHE, cache, EntitiesName)
                      ELSE [hit |-> FALSE, data |-> <<>>]
            df == EntityRows(remote[EntitiesName], "Q1")
        IN /\ IF cached.hit
              THEN /\ fetched' = [fetched EXCEPT ![EntitiesName] =
                                     FromCache(RESET_CACHE, cache, EntitiesName, cached.data)]
                   /\ UNCHANGED cache
              ELSE IF answers
              THEN /\ cache' = save_cache(cache, EntitiesName, df)
                   /\ fetched' = [fetched EXCEPT ![EntitiesName] =
                                     FromRemote(RESET_CACHE, cache, EntitiesName, TRUE, df)]
              ELSE /\ fetched' = [fetched EXCEPT ![EntitiesName] =
                                     FromRemote(RESET_CACHE, cache, EntitiesName, FALSE, <<>>)]
                   /\ UNCHANGED cache
           /\ UNCHANGED <<RESET_CACHE, remote>>
           /\ UNCHANGED outside_cache

\* Wikidata is edited: the endpoint answers a query differently from now on.
RemoteChanges ==
    /\ \E c \in CountsAnswers, e \in EntitiesAnswers :
          /\ Answers(c, e) # remote
          /\ remote' = Answers(c, e)
    /\ UNCHANGED <<RESET_CACHE, cache, fetched>>
    /\ UNCHANGED outside_cache

\* The script is started again, with reset_cache as config.yaml has it then.
LoadConfig ==
    /\ RESET_CACHE' = ~RESET_CACHE
    /\ UNCHANGED <<cache, remote, fetched>>
    /\ UNCHANGED outside_cache

CacheNext == FetchEntityCounts \/ FetchEntitiesByCountry \/ RemoteChanges \/ LoadConfig

CacheSpec == CacheInit /\ [][CacheNext]_vars

(***************************************************************************)
(* C22: a fetch made with the reset flag off while its cache file exists   *)
(* returns the cached frame and does not query the endpoint; a fetch made  *)
(* with the flag on queries the endpoint whatever the cache holds; after a *)
(* fetch that queried and returned, the cache file of its name holds the   *)
(* frame it returned; and the next fetch of that name made with the flag   *)
(* off returns the same frame, whatever the endpoint answers by then.      *)
(***************************************************************************)
CacheProtocol(name) ==
    LET f == fetched[name]
    IN f.called =>
          /\ (~f.reset /\ f.had_entry) => (~f.queried /\ f.returned /\ f.value = f.entry)
          /\ f.reset => f.queried
          /\ (~f.reset /\ ~f.had_entry) => f.queried
          /\ (f.queried /\ f.returned) => (cache[name].exists /\ cache[name].data = f.value)
          /\ (f.queried /\ ~f.returned) => cache[name] = [exists |-> f.had_entry, data |-> f.entry]

NextFetchReturnsTheSame(name) ==
    (/\ fetched[name].called /\ fetched[name].returned
     /\ fetched'[name] # fetched[name]
     /\ ~fetched'[name].reset) =>
        /\ fetched'[name].returned
        /\ fetched'[name].value = fetched[name].value

C22_CacheProtocol ==
    /\ [](\A name \in CacheNames : CacheProtocol(name))
    /\ [][\A name \in CacheNames : NextFetchReturnsTheSame(name)]_vars

\* A fetch with the flag on replaced an older cache file by a different
\* frame, and the fetch after it, with the flag off, returned that frame
\* from the cache although the endpoint answers something else by now.
C22_Witness ==
    /\ ~RESET_CACHE
    /\ fetched[EntitiesName].called
    /\ ~fetched[EntitiesName].queried
    /\ fetched[EntitiesName].value # <<>>
    /\ fetched[EntitiesName].value # EntityRows(remote[EntitiesName], "Q1")
    /\ fetched[CountsName].called
    /\ fetched[CountsName].reset /\ fetched[CountsName].had_entry
    /\ fetched[CountsName].returned
    /\ fetched[CountsName].value # fetched[CountsName].entry
    /\ Len(fetched[CountsName].value) = 3

(***************************************************************************)
(* JAO_OSM_substations_matcher.py: build_substation_coordinate_map and the *)
(* assertion of the main script.                                           *)
(*                                                                         *)
(* substations_df is the sequence of the rows of the OSM frame (it has the *)
(* column osm_name, as a frame read from the CSV has).  The pattern handed *)
(* to str.contains is a result of normalize: word characters and           *)
(* whitespace only, which a regular expression matches literally, so       *)
(* contains is the substring test.                                         *)
(***************************************************************************)
\* Number of names in unique_substations, and of rows of the OSM frame.
MaxNames == 2
MaxSubstations == 2

\* Variant: the names must be equal.
ContainsWhole(s, pat) == s = pat

\* Series.str.contains(pat) on one string.
Contains(s, pat) ==
    \E a \in 0..(Len(s) - Len(pat)) : SubSeq(s, a + 1, a + Len(pat)) = pat

\* Line 93: the frame with its column normalized_osm_name.
WithNormalizedOsmName(df) ==
    [i \in 1..Len(df) |-> [df[i] EXCEPT !.normalized_osm_name = normalize(df[i].osm_name)]]

\* Line 99: the index labels of match, in frame order.
MatchRows(df, name) ==
    LET pat == normalize(name).chars
        Hit(i) == Contains(df[i].normalized_osm_name.chars, pat)
    IN SelectSeq([i \in 1..Len(df) |-> i], Hit)

\* Variant: a name that matches rows already used by an earlier name is skipped.
match_listOncePerRow(names, df) ==
    LET Matched(k) == MatchRows(df, names[k]) # <<>>
                      /\ \A j \in 1..(k - 1) :
                            MatchRows(df, names[j]) = <<>>
                            \/ MatchRows(df, names[j])[1] # MatchRows(df, names[k])[1]
        ks == SelectSeq([k \in 1..Len(names) |-> k], Matched)
    IN [j \in 1..Len(ks) |->
          LET row == df[MatchRows(df, names[ks[j]])[1]]
          IN [jao_substation |-> names[ks[j]], matched_osm_name |-> row.osm_name,
              osm_id |-> row.osm_id, latitude |-> row.latitude, longitude |-> row.longitude]]

\* Lines 101-110: match_list after the loop; row is match.iloc[0].
match_list(names, df) ==
    LET Matched(k) == MatchRows(df, names[k]) # <<>>
        ks == SelectSeq([k \in 1..Len(names) |-> k], Matched)
    IN [j \in 1..Len(ks) |->
          LET row == df[MatchRows(df, names[ks[j]])[1]]
          IN [jao_substation |-> names[ks[j]], matched_osm_name |-> row.osm_name,
              osm_id |-> row.osm_id, latitude |-> row.latitude, longitude |-> row.longitude]]

\* Lines 111-113: unmatched_list after the loop.
unmatched_list(names, df) ==
    LET Unmatched(k) == MatchRows(df, names[k]) = <<>>
        ks == SelectSeq([k \in 1..Len(names) |-> k], Unmatched)
    IN [j \in 1..Len(ks) |-> [jao_substation |-> names[ks[j]]]]

NoId == 0

\* Lines 103 and 112: match_dict after the loop, a mapping from the names.
match_dict(names, df) ==
    [name \in {names[k] : k \in 1..Len(names)} |->
        IF MatchRows(df, name) # <<>>
        THEN [lat |-> df[MatchRows(df, name)[1]].latitude,
              lon |-> df[MatchRows(df, name)[1]].longitude,
              osm_id |-> df[MatchRows(df, name)[1]].osm_id]
        ELSE [lat |-> NaNf, lon |-> NaNf, osm_id |-> NoId]]

\* A row of the OSM frame; osm_id is the row's position, set by SubstationsFrame.
NewSubstationRow(name) ==
    [osm_id |-> 0, osm_name |-> name, latitude |-> Float(1), longitude |-> Float(2),
     normalized_osm_name |-> NaN]

SubstationsFrame(rows) ==
    [i \in 1..Len(rows) |->
        [rows[i] EXCEPT !.osm_id = i, !.latitude = Float(i), !.longitude = Float(i + 1)]]

\* Names of the JAO sheet: one with an upper-case letter, one that is part
\* of another, one of punctuation only, and a number.
JaoNames ==
    {Str(<<"A">>), Str(<<"a", " ", "b">>), Str(<<"b">>), Str(<<"c">>), Str(<<"-">>), Number("1")}

\* Names of OSM substations: plain, accented, and missing.
OsmSubstationNames ==
    {Str(<<"a", " ", "b">>), Str(<<"B", "-", "a">>), Str(<<"a_acute">>), NaN}

Distinct(seq) == \A a \in 1..Len(seq), b \in 1..Len(seq) : a # b => seq[a] # seq[b]

\* extract_unique_substations returns distinct names.
MatcherInit ==
    /\ \E n \in 0..MaxNames :
          /\ substation_names \in [1..n -> JaoNames]
          /\ Distinct(substation_names)
    /\ \E m \in 0..MaxSubstations :
          substations_df \in
              {SubstationsFrame([i \in 1..m |-> NewSubstationRow(r[i])]) :
                  r \in [1..m -> OsmSubstationNames]}
    /\ coord_map = <<>>
    /\ matched_df = <<>>
    /\ unmatched_df = <<>>
    /\ assertion = "none"
    /\ ReconciliationIdle
    /\ NormalizerIdle
    /\ CacheIdle
    /\ CollectorIdle
    /\ NotesIdle
    /\ PagerIdle
    /\ TilesIdle

\* Lines 159 and 176: the call of build_substation_coordinate_map and the
\* assertion on its results.
BuildSubstationCoordinateMap ==
    LET df == WithNormalizedOsmName(substations_df)
    IN /\ assertion = "none"
       /\ substations_df' = df
       /\ coord_map' = match_dict(substation_names, df)
       /\ matched_df' = match_list(substation_names, df)
       /\ unmatched_df' = unmatched_list(substation_names, df)
       /\ assertion' = IF Len(substation_names)
                           = Len(match_list(substation_names, df))
                             + Len(unmatched_list(substation_names, df))
                        THEN "passed" ELSE "failed"
       /\ UNCHANGED substation_names
       /\ UNCHANGED outside_matcher

MatcherNext == BuildSubstationCoordinateMap

MatcherSpec == MatcherInit /\ [][MatcherNext]_vars

(***************************************************************************)
(* C23: after build_substation_coordinate_map every name of                *)
(* substation_names is in exactly one of the matched and the unmatched     *)
(* list, once; the two lists together are as long as the list of names, so *)
(* the assertion of the main script passes; and coord_map has an entry for *)
(* every name and for nothing else.                                        *)
(***************************************************************************)
TimesIn(list, name) == Cardinality({k \in 1..Len(list) : list[k].jao_substation = name})

C23_EveryNameInOneList ==
    assertion # "none" =>
        /\ assertion = "passed"
        /\ Len(matched_df) + Len(unmatched_df) = Len(substation_names)
        /\ \A k \in 1..Len(substation_names) :
              TimesIn(matched_df, substation_names[k])
                 + TimesIn(unmatched_df, substation_names[k]) = 1
        /\ DOMAIN coord_map = {substation_names[k] : k \in 1..Len(substation_names)}

\* Two names were matched to the same OSM row.
C23_Witness ==
    /\ assertion = "passed"
    /\ Len(matched_df) = 2
    /\ matched_df[1].osm_id = matched_df[2].osm_id
    /\ Len(substations_df) = 2

(***************************************************************************)
(* C24: a JAO substation is matched exactly when its normalized name       *)
(* occurs as a substring of the normalized name of at least one OSM        *)
(* substation; the match recorded, in the matched list and in coord_map,   *)
(* is the first such OSM row in dataset order; an unmatched substation has *)
(* lat, lon and osm_id all None in coord_map.                              *)
(***************************************************************************)
IsSubstringOf(p, s) ==
    \/ p = <<>>
    \/ \E a \in 1..Len(s), b \in 1..Len(s) : SubSeq(s, a, b) = p

OccursInRow(name, i) ==
    IsSubstringOf(normalize(name).chars, normalize(substations_df[i].osm_name).chars)

OccurrencesOf(name) == {i \in 1..Len(substations_df) : OccursInRow(name, i)}

FirstOccurrenceOf(name) ==
    CHOOSE i \in OccurrencesOf(name) : \A j \in OccurrencesOf(name) : i <= j

C24_MatchedWhenSubstringOfFirstRow ==
    assertion # "none" =>
        \A k \in 1..Len(substation_names) :
            LET name == substation_names[k]
            IN IF OccurrencesOf(name) # {}
               THEN LET row == substations_df[FirstOccurrenceOf(name)]
                    IN /\ \E j \in 1..Len(matched_df) :
                             /\ matched_df[j].jao_substation = name
                             /\ matched_df[j].osm_id = row.osm_id
                             /\ matched_df[j].matched_osm_name = row.osm_name
                             /\ matched_df[j].latitude = row.latitude
                             /\ matched_df[j].longitude = row.longitude
                       /\ TimesIn(unmatched_df, name) = 0
                       /\ coord_map[name] = [lat |-> row.latitude, lon |-> row.longitude,
                                             osm_id |-> row.osm_id]
               ELSE /\ TimesIn(matched_df, name) = 0
                    /\ TimesIn(unmatched_df, name) = 1
                    /\ coord_map[name] = [lat |-> NaNf, lon |-> NaNf, osm_id |-> NoId]

\* One name is a proper part of the names of two OSM rows and got the first
\* of them; the other name occurs in no OSM name.
C24_Witness ==
    /\ assertion = "passed"
    /\ Len(matched_df) = 1
    /\ Len(unmatched_df) = 1
    /\ Cardinality(OccurrencesOf(matched_df[1].jao_substation)) = 2
    /\ matched_df[1].osm_id = 1
    /\ normalize(matched_df[1].jao_substation) # normalize(matched_df[1].matched_osm_name)

(***************************************************************************)
(* The Wikidata collectors: collect_substation_data                        *)
(* (get_wiki_substations.py), collect_entity_data                          *)
(* (osm-wikidata/fetch_wiki_info_by_country.py) and                        *)
(* collect_entity_data_parallel (fetch_wiki_info_by_country_v2.py).        *)
(*                                                                         *)
(* country_answers[c] is what the fetch of the c-th row of country_counts gives:   *)
(* the frame of its rows, or an exception.  A frame is the sequence of its *)
(* rows and the index label of a row is its position; a subset of a frame  *)
(* is the sequence of its rows with their labels.  The two sequential      *)
(* collectors are one step each; the parallel one is a step for the        *)
(* submission, two per worker task, one per future taken from as_completed *)
(* and one for the rest of the function.                                   *)
(***************************************************************************)
\* Rows of country_counts.
MaxCountries == 3

\* The elements of seq at the positions in keep, in order.
Take(seq, keep) ==
    LET positions == Sub([i \in 1..Len(seq) |-> i], keep)
    IN [k \in 1..Len(positions) |-> seq[positions[k]]]

RECURSIVE Concat(_)
\* pd.concat(frames, ignore_index=True).
Concat(frames) ==
    IF frames = <<>> THEN <<>> ELSE Head(frames) \o Concat(Tail(frames))

\* df.drop_duplicates(subset="entity"): the first row of every entity.
DropDuplicateEntities(df) ==
    LET First(i) == \A j \in 1..(i - 1) : df[j].entity # df[i].entity
    IN Take(df, {i \in 1..Len(df) : First(i)})

\* A frame made of no rows has no columns; dropna(axis=1, how="all") drops
\* a column that holds no value.
HasLatitude(df) == \E i \in 1..Len(df) : ~df[i].latitude.isnan
HasLongitude(df) == \E i \in 1..Len(df) : ~df[i].longitude.isnan

\* full_df[mask]: the rows of the frame whose label is in keep.
Rows(df, keep) ==
    LET labels == Sub([i \in 1..Len(df) |-> i], keep)
    IN [k \in 1..Len(labels) |-> [label |-> labels[k], row |-> df[labels[k]]]]

Returned(full, with, without) ==
    [state |-> "returned", full_df |-> full, df_with_coords |-> with,
     df_without_coords |-> without]

Raised(error) ==
    [state |-> error, full_df |-> <<>>, df_with_coords |-> <<>>, df_without_coords |-> <<>>]

\* The frames fetched without an exception, in the order of country_counts.
Fetched(ans) ==
    LET oks == Sub([c \in 1..Len(ans) |-> c], {c \in 1..Len(ans) : ans[c].ok})
    IN [k \in 1..Len(oks) |-> ans[oks[k]].rows]

NonEmpty(frames) ==
    Take(frames, {k \in 1..Len(frames) : frames[k] # <<>>})

\* Variant: the second mask is taken from full_df.
collect_substation_dataOnFullFrame(ans) ==
    LET all_substations == NonEmpty(Fetched(ans))
        full == Concat(all_substations)
    IN IF all_substations = <<>> THEN Raised("ValueError")
       ELSE Returned(full,
                Rows(full, {i \in 1..Len(full) :
                                ~full[i].latitude.isnan /\ ~full[i].longitude.isnan}),
                Rows(full, {i \in 1..Len(full) :
                                full[i].latitude.isnan \/ full[i].longitude.isnan}))

\* get_wiki_substations.py lines 116-141.  df is the frame of the last
\* fetch that did not raise; the mask of line 139 is the union, label by
\* label, of full_df's missing latitudes and df's missing longitudes.
collect_substation_data(ans) ==
    LET all_substations == NonEmpty(Fetched(ans))
        df == Fetched(ans)[Len(Fetched(ans))]
        full == Concat(all_substations)
    IN IF all_substations = <<>> THEN Raised("ValueError")
       ELSE IF df = <<>> THEN Raised("KeyError")
       ELSE Returned(full,
                Rows(full, {i \in 1..Len(full) :
                                ~full[i].latitude.isnan /\ ~full[i].longitude.isnan}),
                Rows(full, {i \in 1..Len(full) :
                                \/ full[i].latitude.isnan
                                \/ i <= Len(df) /\ df[i].longitude.isnan}))

\* osm-wikidata/fetch_wiki_info_by_country.py lines 134-168.
collect_entity_data(ans) ==
    LET fetched_frames == Fetched(ans)
        deduplicated == [k \in 1..Len(fetched_frames) |->
                            DropDuplicateEntities(fetched_frames[k])]
        non_empty == NonEmpty(deduplicated)
        full == Concat(non_empty)
    IN IF \/ ~\E k \in 1..Len(non_empty) : HasLatitude(non_empty[k])
          \/ ~\E k \in 1..Len(non_empty) : HasLongitude(non_empty[k])
       THEN Raised("KeyError")
       ELSE Returned(full,
                Rows(full, {i \in 1..Len(full) :
                                ~full[i].latitude.isnan /\ ~full[i].longitude.isnan}),
                Rows(full, {i \in 1..Len(full) :
                                full[i].latitude.isnan \/ full[i].longitude.isnan}))

\* fetch_wiki_info_by_country_v2.py lines 231-240: what task(row) returns
\* and whether it records the country as failed.
task(answer) ==
    IF answer.ok
    THEN [result |-> DropDuplicateEntities(answer.rows), failed |-> FALSE]
    ELSE [result |-> <<>>, failed |-> TRUE]

\* Variant: a future stays in the iteration after it was yielded.
as_completedAgain(fs) ==
    {c \in 1..Len(fs) : fs[c].state \in {"done", "yielded"}}

\* Line 244: the futures as_completed can yield next.
as_completed(fs) ==
    {c \in 1..Len(fs) : fs[c].state = "done"}

\* Lines 253-288, from the frames the main thread has collected.
CollectedFrames(frames) ==
    LET non_empty == NonEmpty(frames)
        full == Concat(non_empty)
        coord_cols_exist ==
            /\ \E k \in 1..Len(non_empty) : HasLatitude(non_empty[k])
            /\ \E k \in 1..Len(non_empty) : HasLongitude(non_empty[k])
        df_coords == {i \in 1..Len(full) :
                         /\ ~full[i].latitude.isnan
                         /\ ~full[i].longitude.isnan
                         /\ ~IsNa(full[i].type)}
    IN IF full = <<>> THEN Returned(<<>>, <<>>, <<>>)
       ELSE IF coord_cols_exist
            THEN Returned(full, Rows(full, df_coords),
                          Rows(full, (1..Len(full)) \ df_coords))
            ELSE Returned(full, <<>>, Rows(full, 1..Len(full)))

\* What the endpoint holds for the c-th country: nothing, one entity with
\* or without coordinates, two entities of which one has coordinates, or
\* one entity listed twice.
Entity(c, k, coordinates) == [item |-> <<c, k>>, coordinates |-> coordinates]

CountryBindings(c) ==
    {<<>>,
     <<Entity(c, 1, Point(c, c))>>,
     <<Entity(c, 1, NoCoordinates)>>,
     <<Entity(c, 1, Point(c, c)), Entity(c, 2, MalformedPoint)>>,
     <<Entity(c, 1, Point(c, c)), Entity(c, 1, NoCoordinates)>>}

CountryAnswers(c) ==
    {[ok |-> FALSE, rows |-> <<>>]}
    \cup {[ok |-> TRUE, rows |-> EntityRows(b, c)] : b \in CountryBindings(c)}

NotSubmitted == [state |-> "pending", result |-> <<>>, failed |-> FALSE]

CollectorInit ==
    /\ \E n \in 0..MaxCountries :
          /\ country_answers \in [1..n -> UNION {CountryAnswers(c) : c \in 1..n}]
          /\ \A c \in 1..n : country_answers[c] \in CountryAnswers(c)
    /\ collector = "none"
    /\ futures = <<>>
    /\ all_entities = <<>>
    /\ failed_countries = <<>>
    /\ outcome = NotReturned
    /\ ReconciliationIdle
    /\ NormalizerIdle
    /\ CacheIdle
    /\ MatcherIdle
    /\ NotesIdle
    /\ PagerIdle
    /\ TilesIdle

CollectSubstationData ==
    /\ collector = "none"
    /\ collector' = "collect_substation_data"
    /\ outcome' = collect_substation_data(country_answers)
    /\ UNCHANGED <<country_answers, futures, all_entities, failed_countries>>
    /\ UNCHANGED outside_collector

CollectEntityData ==
    /\ collector = "none"
    /\ collector' = "collect_entity_data"
    /\ outcome' = collect_entity_data(country_answers)
    /\ UNCHANGED <<country_answers, futures, all_entities, failed_countries>>
    /\ UNCHANGED outside_collector

\* Line 243: every row of country_counts is submitted.
Submit ==
    /\ collector = "none"
    /\ collector' = "collect_entity_data_parallel"
    /\ futures' = [c \in 1..Len(country_answers) |-> NotSubmitted]
    /\ UNCHANGED <<country_answers, all_entities, failed_countries, outcome>>
    /\ UNCHANGED outside_collector

\* Lines 231-235: a worker runs the fetch of a country to its end.
TaskFetches(c) ==
    /\ collector = "collect_entity_data_parallel"
    /\ futures[c].state = "pending"
    /\ futures' = [futures EXCEPT ![c] =
                      [state |-> "fetched", result |-> task(country_answers[c]).result,
                       failed |-> task(country_answers[c]).failed]]
    /\ UNCHANGED <<country_answers, collector, all_entities, failed_countries, outcome>>
    /\ UNCHANGED outside_collector

\* Lines 236-240: the worker records a failure and returns.
TaskReturns(c) ==
    /\ collector = "collect_entity_data_parallel"
    /\ futures[c].state = "fetched"
    /\ failed_countries' = IF futures[c].failed THEN Append(failed_countries, c)
                           ELSE failed_countries
    /\ futures' = [futures EXCEPT ![c].state = "done"]
    /\ UNCHANGED <<country_answers, collector, all_entities, outcome>>
    /\ UNCHANGED outside_collector

\* Lines 244-247: the main thread takes a completed future.
TakeCompleted(c) ==
    /\ collector = "collect_entity_data_parallel"
    /\ outcome.state = "none"
    /\ c \in as_completed(futures)
    /\ all_entities' = IF futures[c].result # <<>>
                       THEN Append(all_entities, futures[c].result)
                       ELSE all_entities
    /\ futures' = [futures EXCEPT ![c].state = "yielded"]
    /\ UNCHANGED <<country_answers, collector, failed_countries, outcome>>
    /\ UNCHANGED outside_collector

\* Lines 249-288: as_completed is exhausted when every future was yielded.
Finish ==
    /\ collector = "collect_entity_data_parallel"
    /\ outcome.state = "none"
    /\ \A c \in 1..Len(futures) : futures[c].state = "yielded"
    /\ outcome' = CollectedFrames(all_entities)
    /\ UNCHANGED <<country_answers, collector, futures, all_entities, failed_countries>>
    /\ UNCHANGED outside_collector

CollectorNext ==
    \/ CollectSubstationData
    \/ CollectEntityData
    \/ Submit
    \/ \E c \in 1..Len(country_answers) : TaskFetches(c)
    \/ \E c \in 1..Len(country_answers) : TaskReturns(c)
    \/ \E c \in 1..Len(country_answers) : TakeCompleted(c)
    \/ Finish

CollectorSpec == CollectorInit /\ [][CollectorNext]_vars

(***************************************************************************)
(* C25: when a collector returns, every row of full_df is in exactly one   *)
(* of df_with_coords and df_without_coords; the rows of df_with_coords     *)
(* have latitude and longitude, the rows of df_without_coords miss one of  *)
(* them; and both subsets hold rows of full_df only.                       *)
(***************************************************************************)
TimesInSubset(subset, i) == Cardinality({k \in 1..Len(subset) : subset[k].label = i})

HasBothCoordinates(row) == ~row.latitude.isnan /\ ~row.longitude.isnan

C25_SubsetsPartitionFullFrame ==
    outcome.state = "returned" =>
        /\ \A i \in 1..Len(outcome.full_df) :
              TimesInSubset(outcome.df_with_coords, i)
                 + TimesInSubset(outcome.df_without_coords, i) = 1
        /\ \A k \in 1..Len(outcome.df_with_coords) :
              /\ outcome.df_with_coords[k].label \in 1..Len(outcome.full_df)
              /\ outcome.df_with_coords[k].row
                    = outcome.full_df[outcome.df_with_coords[k].label]
              /\ HasBothCoordinates(outcome.df_with_coords[k].row)
        /\ \A k \in 1..Len(outcome.df_without_coords) :
              /\ outcome.df_without_coords[k].label \in 1..Len(outcome.full_df)
              /\ outcome.df_without_coords[k].row
                    = outcome.full_df[outcome.df_without_coords[k].label]
              /\ ~HasBothCoordinates(outcome.df_without_coords[k].row)

(***************************************************************************)
(* C27: in collect_entity_data_parallel, whatever the interleaving of the  *)
(* workers and the main thread, a country is never recorded as failed more *)
(* than once and its frame is never collected more than once; when the     *)
(* collector returns, a country whose fetch raised is in failed_countries  *)
(* once and has no row in full_df, a country whose fetch gave rows has     *)
(* each of its entities in full_df once and is not in failed_countries, a  *)
(* country whose fetch gave no rows is in neither; and the set of the rows *)
(* of full_df is determined by the answers alone.                          *)
(***************************************************************************)
TimesFailed(c) ==
    Cardinality({k \in 1..Len(failed_countries) : failed_countries[k] = c})

TimesCollected(c) ==
    Cardinality({k \in 1..Len(all_entities) :
                    \E i \in 1..Len(all_entities[k]) : all_entities[k][i].country_qid = c})

RowsOfCountry(c) ==
    {i \in 1..Len(outcome.full_df) : outcome.full_df[i].country_qid = c}

\* The first row of every entity the fetch of country c gave.
ExpectedRowsOf(c) ==
    {country_answers[c].rows[i] : i \in
        {i \in 1..Len(country_answers[c].rows) :
            \A j \in 1..(i - 1) :
                country_answers[c].rows[j].entity # country_answers[c].rows[i].entity}}

ExpectedRows ==
    UNION {ExpectedRowsOf(c) : c \in {c \in 1..Len(country_answers) : country_answers[c].ok}}

OneOutcome(c) ==
    IF ~country_answers[c].ok
    THEN TimesFailed(c) = 1 /\ RowsOfCountry(c) = {}
    ELSE /\ TimesFailed(c) = 0
         /\ \A row \in ExpectedRowsOf(c) :
               Cardinality({i \in RowsOfCountry(c) : outcome.full_df[i] = row}) = 1
         /\ Cardinality(RowsOfCountry(c)) = Cardinality(ExpectedRowsOf(c))

C27_OneOutcomePerCountry ==
    collector = "collect_entity_data_parallel" =>
        /\ \A c \in 1..Len(country_answers) : TimesFailed(c) <= 1 /\ TimesCollected(c) <= 1
        /\ outcome.state = "returned" =>
              /\ \A c \in 1..Len(country_answers) : OneOutcome(c)
              /\ {outcome.full_df[i] : i \in 1..Len(outcome.full_df)} = ExpectedRows

\* One worker recorded a failure; the frames of the two other countries
\* were collected in the order opposite to their submission.
C27_Witness ==
    /\ collector = "collect_entity_data_parallel"
    /\ outcome.state = "returned"
    /\ Len(failed_countries) = 1
    /\ Len(all_entities) = 2
    /\ all_entities[1][1].country_qid > all_entities[2][1].country_qid
    /\ Len(outcome.full_df) >= 3

(***************************************************************************)
(* osm-notes/osm-country-notes.py: insert_note and the import loop of      *)
(* import_country_power_notes.                                             *)
(*                                                                         *)
(* A note element is modelled by what insert_note reads of it: its id (0:  *)
(* missing or not a number), date_created, status, whether it is power     *)
(* related, and its comments with their date (0: missing or unparseable),  *)
(* action and user.  Times are small numbers and 0 is None.  The status    *)
(* "invalid" stands for a text longer than the VARCHAR(20) of the column,  *)
(* which the INSERT or UPDATE of the note rejects with an exception.  The  *)
(* connection has autocommit off: the statements of the cursor act on      *)
(* transaction, commit copies it to database, rollback restores it from    *)
(* database; the SERIAL sequences are not part of the transaction.         *)
(***************************************************************************)
\* Notes returned by the API over all tiles.
MaxNotes == 3

\* Stands for the 100 of line 557: a commit every so many counted notes.
CommitEvery == 2

Max(a, b) == IF a >= b THEN a ELSE b

\* get_or_create_user, lines 293-308, on the tables and the sequences.
get_or_create_user(db, seqs, display_name) ==
    IF display_name = "" THEN [author_id |-> 0, db |-> db, seqs |-> seqs]
    ELSE IF \E u \in db.users : u.display_name = display_name
    THEN [author_id |-> (CHOOSE u \in db.users : u.display_name = display_name).id,
          db |-> db, seqs |-> seqs]
    ELSE [author_id |-> seqs.users + 1,
          db |-> [db EXCEPT !.users =
                     @ \cup {[id |-> seqs.users + 1, display_name |-> display_name]}],
          seqs |-> [seqs EXCEPT !.users = @ + 1]]

RECURSIVE InsertComments(_, _, _)
\* Lines 413-439: the loop over the comments; acc holds the tables, the
\* sequences and updated_at.
InsertComments(acc, note_id, comments) ==
    IF comments = <<>> THEN acc
    ELSE LET comment == Head(comments)
             user == get_or_create_user(acc.db, acc.seqs, comment.user)
             row == [id |-> user.seqs.note_comments + 1, note_id |-> note_id,
                     author_id |-> user.author_id, created_at |-> comment.date,
                     event |-> comment.action]
         IN IF comment.date = 0
            THEN InsertComments(acc, note_id, Tail(comments))
            ELSE InsertComments(
                     [db |-> [user.db EXCEPT !.note_comments = @ \cup {row}],
                      seqs |-> [user.seqs EXCEPT !.note_comments = @ + 1],
                      updated_at |-> Max(acc.updated_at, comment.date)],
                     note_id, Tail(comments))

\* Lines 371-383: the date of the last comment that closed the note.
ClosedAt(elem) ==
    LET closed_comments ==
            Take(elem.comments,
                 {k \in 1..Len(elem.comments) : elem.comments[k].action = "closed"})
    IN IF elem.status = "closed" /\ closed_comments # <<>>
       THEN closed_comments[Len(closed_comments)].date
       ELSE 0

\* Variant: the comments of an existing note are kept.
CommentsAfterUpdateKept(db, note_id) == db.note_comments

\* Line 403: DELETE FROM note_comments WHERE note_id = ...
CommentsAfterUpdate(db, note_id) == {c \in db.note_comments : c.note_id # note_id}

\* Lines 339-443.  result is "None", "True", "False", or "raised" when a
\* statement raises.
insert_note(db, seqs, elem) ==
    LET note_exists == \E n \in db.notes : n.id = elem.id
        updated == [db EXCEPT
                       !.notes = {IF n.id = elem.id
                                  THEN [n EXCEPT !.updated_at = elem.date_created,
                                                 !.status = elem.status,
                                                 !.closed_at = ClosedAt(elem),
                                                 !.is_power_related = elem.is_power]
                                  ELSE n : n \in db.notes},
                       !.note_comments = CommentsAfterUpdate(db, elem.id)]
        inserted == [db EXCEPT
                        !.notes = @ \cup {[id |-> elem.id,
                                           created_at |-> elem.date_created,
                                           updated_at |-> elem.date_created,
                                           status |-> elem.status,
                                           closed_at |-> ClosedAt(elem),
                                           is_power_related |-> elem.is_power]}]
        after == InsertComments(
                     [db |-> IF note_exists THEN updated ELSE inserted, seqs |-> seqs,
                      updated_at |-> elem.date_created],
                     elem.id, elem.comments)
    IN IF elem.id = 0 \/ elem.date_created = 0
       THEN [result |-> "None", db |-> db, seqs |-> seqs]
       ELSE IF elem.status = "invalid"
       THEN [result |-> "raised", db |-> db, seqs |-> seqs]
       ELSE [result |-> IF elem.is_power THEN "True" ELSE "False",
             db |-> [after.db EXCEPT
                        !.notes = {IF n.id = elem.id
                                   THEN [n EXCEPT !.updated_at = after.updated_at]
                                   ELSE n : n \in after.db.notes}],
             seqs |-> after.seqs]

Comment(date, action, user) == [date |-> date, action |-> action, user |-> user]

Note(id, date_created, status, is_power, comments) ==
    [id |-> id, date_created |-> date_created, status |-> status, is_power |-> is_power,
     comments |-> comments]

\* Notes of the API: an open note, the same note after it was closed (with
\* a comment that has no date), a note without comments, a note without
\* id, and a note the database rejects.
NoteElements ==
    {Note(1, 1, "open", TRUE, <<Comment(1, "opened", "u")>>),
     Note(1, 1, "closed", TRUE,
          <<Comment(1, "opened", "u"), Comment(0, "commented", ""),
            Comment(3, "closed", "v")>>),
     Note(2, 2, "open", FALSE, <<>>),
     Note(0, 1, "open", FALSE, <<>>),
     Note(3, 1, "invalid", FALSE, <<Comment(1, "opened", "u")>>)}

\* The k-th smallest element of a set of numbers.
Kth(S, k) == CHOOSE x \in S : Cardinality({y \in S : y <= x}) = k

\* The notes of the API cut into tiles after the positions in ends.
TilesOf(flat, ends) ==
    [k \in 1..Cardinality(ends) |->
        SubSeq(flat, IF k = 1 THEN 1 ELSE Kth(ends, k - 1) + 1, Kth(ends, k))]

\* Every tile has notes (a tile without notes is skipped at line 536).
NotesInit ==
    /\ \E n \in 0..MaxNotes :
          \E flat \in [1..n -> NoteElements] :
             \E breaks \in SUBSET (1..(n - 1)) :
                tiles = TilesOf(flat, IF n = 0 THEN {} ELSE breaks \cup {n})
    /\ stop_on_error \in BOOLEAN
    /\ tile_index = 1
    /\ note_index = 1
    /\ database = EmptyTables
    /\ transaction = EmptyTables
    /\ sequences = NewSequences
    /\ total_notes = 0
    /\ counted = {}
    /\ last_insert = NoInsert
    /\ import_state = "running"
    /\ ReconciliationIdle
    /\ NormalizerIdle
    /\ CacheIdle
    /\ MatcherIdle
    /\ CollectorIdle
    /\ PagerIdle
    /\ TilesIdle

\* Lines 542-572: one pass of the loop over the notes of a tile.
ProcessNote ==
    /\ import_state = "running"
    /\ tile_index <= Len(tiles)
    /\ note_index <= Len(tiles[tile_index])
    /\ LET note_elem == tiles[tile_index][note_index]
           inserted == insert_note(transaction, sequences, note_elem)
       IN /\ last_insert' = [called |-> TRUE,
                             again |-> \E n \in transaction.notes : n.id = note_elem.id,
                             result |-> inserted.result, elem |-> note_elem]
          /\ sequences' = inserted.seqs
          /\ IF inserted.result = "raised"
             THEN /\ transaction' = database
                  /\ import_state' = IF stop_on_error THEN "exited" ELSE "running"
                  /\ UNCHANGED <<database, total_notes, counted>>
             ELSE IF inserted.result = "None"
             THEN UNCHANGED <<database, transaction, total_notes, counted, import_state>>
             ELSE /\ total_notes' = total_notes + 1
                  /\ counted' = counted \cup {note_elem.id}
                  /\ transaction' = inserted.db
                  /\ database' = IF (total_notes + 1) % CommitEvery = 0
                                 THEN inserted.db ELSE database
                  /\ UNCHANGED import_state
    /\ note_index' = note_index + 1
    /\ UNCHANGED <<tiles, stop_on_error, tile_index>>
    /\ UNCHANGED outside_notes

\* Lines 574-580: the end of a tile.
CompleteTile ==
    /\ import_state = "running"
    /\ tile_index <= Len(tiles)
    /\ note_index > Len(tiles[tile_index])
    /\ database' = transaction
    /\ tile_index' = tile_index + 1
    /\ note_index' = 1
    /\ UNCHANGED <<tiles, stop_on_error, transaction, sequences, total_notes, counted,
                   last_insert, import_state>>
    /\ UNCHANGED outside_notes

\* Lines 582-592 and the end of database_connection.
CompleteImport ==
    /\ import_state = "running"
    /\ tile_index > Len(tiles)
    /\ import_state' = "completed"
    /\ transaction' = database
    /\ UNCHANGED <<tiles, stop_on_error, tile_index, note_index, database, sequences,
                   total_notes, counted, last_insert>>
    /\ UNCHANGED outside_notes

NotesNext == ProcessNote \/ CompleteTile \/ CompleteImport

NotesSpec == NotesInit /\ [][NotesNext]_vars

(***************************************************************************)
(* C26: when an import without --stop-on-error has completed, every note   *)
(* that was counted in total_notes is in the committed notes table.        *)
(***************************************************************************)
C26_CountedNotesAreCommitted ==
    (import_state = "completed" /\ ~stop_on_error) =>
        \A id \in counted : \E n \in database.notes : n.id = id

(***************************************************************************)
(* C28: after insert_note has inserted or updated a note, the notes table  *)
(* has one row with its id, note_comments holds for it exactly the dated   *)
(* comments of the element just imported, and the row's updated_at is the  *)
(* latest of date_created and the dates of these comments, whether or not  *)
(* the note had been imported before; and importing the same element a     *)
(* second time right after the first leaves the tables as they were, up to *)
(* the serial ids of the comments.                                         *)
(***************************************************************************)
Inserted == last_insert.called /\ last_insert.result \in {"True", "False"}

DatedComments(elem) == {k \in 1..Len(elem.comments) : elem.comments[k].date # 0}

CommentsOfNote(db, id) == {c \in db.note_comments : c.note_id = id}

LatestOf(elem) ==
    CHOOSE t \in {elem.date_created} \cup {elem.comments[k].date : k \in DatedComments(elem)} :
        \A u \in {elem.date_created} \cup {elem.comments[k].date : k \in DatedComments(elem)} :
            u <= t

\* The tables without the serial ids of the comments.
Visible(db) ==
    [notes |-> db.notes,
     users |-> db.users,
     note_comments |->
        {[note_id |-> c.note_id, author_id |-> c.author_id, created_at |-> c.created_at,
          event |-> c.event,
          times |-> Cardinality({d \in db.note_comments :
                                    /\ d.note_id = c.note_id
                                    /\ d.author_id = c.author_id
                                    /\ d.created_at = c.created_at
                                    /\ d.event = c.event})] : c \in db.note_comments}]

OneImportIsThere ==
    Inserted =>
        LET elem == last_insert.elem
        IN /\ Cardinality({n \in transaction.notes : n.id = elem.id}) = 1
           /\ \A n \in transaction.notes :
                 n.id = elem.id =>
                    /\ n.created_at = elem.date_created
                    /\ n.updated_at = LatestOf(elem)
                    /\ n.status = elem.status
           /\ Cardinality(CommentsOfNote(transaction, elem.id))
                 = Cardinality(DatedComments(elem))
           /\ \A k \in DatedComments(elem) :
                 Cardinality({c \in CommentsOfNote(transaction, elem.id) :
                                 /\ c.created_at = elem.comments[k].date
                                 /\ c.event = elem.comments[k].action})
                    = Cardinality({j \in DatedComments(elem) :
                                      /\ elem.comments[j].date = elem.comments[k].date
                                      /\ elem.comments[j].action = elem.comments[k].action})

SecondImportChangesNothing ==
    (/\ Inserted
     /\ note_index' = note_index + 1
     /\ last_insert'.elem = last_insert.elem
     /\ last_insert'.result \in {"True", "False"})
        => Visible(transaction') = Visible(transaction)

C28_ImportTwiceIsImportOnce ==
    []OneImportIsThere /\ [][SecondImportChangesNothing]_vars

\* The closed note, which has two dated comments, was imported twice in a
\* row from the same tile.
C28_Witness ==
    /\ Inserted
    /\ last_insert.again
    /\ note_index >= 3
    /\ tile_index <= Len(tiles)
    /\ tiles[tile_index][note_index - 1] = last_insert.elem
    /\ tiles[tile_index][note_index - 2] = last_insert.elem
    /\ Cardinality(DatedComments(last_insert.elem)) = 2
    /\ Cardinality(CommentsOfNote(transaction, last_insert.elem.id)) = 2
    /\ \E n \in transaction.notes : n.id = last_insert.elem.id /\ n.updated_at = 3

(***************************************************************************)
(* The paged fetch loops of fetch_entity_counts                            *)
(* (fetch_wiki_info_by_country_v2.py lines 102-133) and                    *)
(* fetch_substations_by_country (get_wiki_substations.py lines 62-113),    *)
(* one step per request, per answer of the endpoint and per pass of the    *)
(* loop body.  limit stands for the 500 of both functions.  The endpoint   *)
(* answers a request with any page of at most limit rows or with an error  *)
(* status; a row is named by the request and its place in the page.        *)
(***************************************************************************)
\* Requests of one call of a paged fetch.
MaxRequests == 4

\* Variant: the next request asks for the same page.
NextOffsetRepeated(offset) == offset

\* offset += limit
NextOffset(offset) == offset + limit

\* The page the endpoint sends as its n-th answer, of the given length.
PageOf(n, length) == [k \in 1..length |-> <<n, k>>]

PagedFetches == {"fetch_entity_counts", "fetch_substations_by_country"}

PagerInit ==
    /\ paged_fetch \in PagedFetches
    /\ loop_offset = 0
    /\ loop_all_rows = <<>>
    /\ response = NoRequest
    /\ requested = <<>>
    /\ received = <<>>
    /\ loop_state = "running"
    /\ ReconciliationIdle
    /\ NormalizerIdle
    /\ CacheIdle
    /\ MatcherIdle
    /\ CollectorIdle
    /\ NotesIdle
    /\ TilesIdle

\* requests.get with LIMIT limit OFFSET offset.
Request ==
    /\ loop_state = "running"
    /\ response.status = "none"
    /\ Len(requested) < MaxRequests
    /\ requested' = Append(requested, loop_offset)
    /\ response' = [status |-> "pending", data |-> <<>>]
    /\ UNCHANGED <<paged_fetch, loop_offset, loop_all_rows, received, loop_state>>
    /\ UNCHANGED outside_pager

\* The endpoint answers: a page of rows, an empty page, or an error status.
Respond ==
    /\ response.status = "pending"
    /\ \/ \E length \in 0..limit :
             response' = [status |-> "ok", data |-> PageOf(Len(requested), length)]
       \/ response' = [status |-> "error", data |-> <<>>]
    /\ UNCHANGED <<paged_fetch, loop_offset, loop_all_rows, requested, received, loop_state>>
    /\ UNCHANGED outside_pager

\* raise_for_status, the test for the empty page, the loop over the rows of
\* the page and the new offset.
Continue ==
    /\ loop_state = "running"
    /\ response.status \in {"ok", "error"}
    /\ response' = NoRequest
    /\ IF response.status = "error"
       THEN /\ loop_state' = "raised"
            /\ UNCHANGED <<loop_offset, loop_all_rows, received>>
       ELSE /\ received' = Append(received, response.data)
            /\ IF response.data = <<>>
               THEN /\ loop_state' = "returned"
                    /\ UNCHANGED <<loop_offset, loop_all_rows>>
               ELSE /\ loop_all_rows' = loop_all_rows \o response.data
                    /\ loop_offset' = NextOffset(loop_offset)
                    /\ UNCHANGED loop_state
    /\ UNCHANGED <<paged_fetch, requested>>
    /\ UNCHANGED outside_pager

PagerNext == Request \/ Respond \/ Continue

\* The loop is sequential code: once the answer has arrived its body runs.
PagerSpec == PagerInit /\ [][PagerNext]_vars /\ WF_vars(Continue)

(***************************************************************************)
(* C29: a paged fetch requests the offsets 0, limit, 2*limit, ... in this  *)
(* order, each once; all_rows holds the rows of the non-empty pages        *)
(* received, each once and in the order received; the loop returns with    *)
(* the first empty page and not before; and once the endpoint has answered *)
(* with an empty page the loop terminates.                                 *)
(***************************************************************************)
RowsReceived ==
    UNION {{received[n][k] : k \in 1..Len(received[n])} : n \in 1..Len(received)}

PagedLoopSafe ==
    /\ \A n \in 1..Len(requested) : requested[n] = (n - 1) * limit
    /\ Len(loop_all_rows) = Cardinality(RowsReceived)
    /\ \A row \in RowsReceived :
          Cardinality({i \in 1..Len(loop_all_rows) : loop_all_rows[i] = row}) = 1
    /\ \A i \in 1..Len(loop_all_rows), j \in 1..Len(loop_all_rows) :
          i < j => \/ loop_all_rows[i][1] < loop_all_rows[j][1]
                   \/ /\ loop_all_rows[i][1] = loop_all_rows[j][1]
                      /\ loop_all_rows[i][2] < loop_all_rows[j][2]
    /\ \A n \in 1..Len(received) :
          received[n] = <<>> <=> (loop_state = "returned" /\ n = Len(received))
    /\ loop_state = "returned" =>
          /\ received # <<>>
          /\ Len(requested) = Len(received)

EmptyPageAnswered == response.status = "ok" /\ response.data = <<>>

C29_PagedLoop ==
    []PagedLoopSafe /\ (EmptyPageAnswered ~> loop_state = "returned")

\* Two full pages were appended and the third page, which was empty, ended
\* the loop.
C29_Witness ==
    /\ loop_state = "returned"
    /\ requested = <<0, limit, 2 * limit>>
    /\ Len(loop_all_rows) = 2 * limit

(***************************************************************************)
(* osm-notes/osm-country-notes.py: split_bbox_into_tiles.                  *)
(*                                                                         *)
(* A coordinate is a whole number of units of 0.0000001 degree, the seven  *)
(* decimals of the bounding boxes of Nominatim; the arithmetic is exact.   *)
(* A tile is the four numbers its string holds: the format .6f keeps six   *)
(* decimals, so each is rounded to the nearest ten units.                  *)
(***************************************************************************)
\* Variant: the boundary is formatted with all its digits (rounded down to
\* the unit).
FormatExact(num, den) == num \div den

\* f"{x:.6f}" for x = num / den units: the nearest multiple of ten units.
Format6(num, den) == 10 * ((2 * num + 10 * den) \div (20 * den))

\* math.ceil(a / b) for a >= 0 and b > 0.
Ceil(a, b) == (a + b - 1) \div b

\* max(1, math.ceil(diff / max_tile_size)), lines 254-255.
TileCount(diff, size) == IF Ceil(diff, size) > 1 THEN Ceil(diff, size) ELSE 1

\* Lines 259-266: the tile of column i and row j.
Tile(box, lon_tiles, lat_tiles, i, j) ==
    LET lon_diff == box.max_lon - box.min_lon
        lat_diff == box.max_lat - box.min_lat
    IN [min_lon |-> Format6(box.min_lon * lon_tiles + i * lon_diff, lon_tiles),
        min_lat |-> Format6(box.min_lat * lat_tiles + j * lat_diff, lat_tiles),
        max_lon |-> Format6(box.min_lon * lon_tiles + (i + 1) * lon_diff, lon_tiles),
        max_lat |-> Format6(box.min_lat * lat_tiles + (j + 1) * lat_diff, lat_tiles)]

\* Lines 247-269: the tiles in the order of the two loops.
split_bbox_into_tiles(box, size) ==
    LET lon_tiles == TileCount(box.max_lon - box.min_lon, size)
        lat_tiles == TileCount(box.max_lat - box.min_lat, size)
    IN [called |-> TRUE, lon_tiles |-> lon_tiles, lat_tiles |-> lat_tiles,
        tiles |-> [k \in 1..(lon_tiles * lat_tiles) |->
                      Tile(box, lon_tiles, lat_tiles,
                           (k - 1) \div lat_tiles, (k - 1) % lat_tiles)]]

\* A boundary that lies exactly between two multiples of ten units is
\* printed as one or the other, depending on its binary representation.
IsTie(num, den) == (2 * num + 10 * den) % (20 * den) = 0

NoTies(box, size) ==
    LET lon_tiles == TileCount(box.max_lon - box.min_lon, size)
        lat_tiles == TileCount(box.max_lat - box.min_lat, size)
    IN /\ \A i \in 0..lon_tiles :
            ~IsTie(box.min_lon * lon_tiles + i * (box.max_lon - box.min_lon), lon_tiles)
       /\ \A j \in 0..lat_tiles :
            ~IsTie(box.min_lat * lat_tiles + j * (box.max_lat - box.min_lat), lat_tiles)

\* Boxes of whole degrees and boxes with seven decimals, of width or height
\* zero included; tile sizes of half a degree (the default) and one degree.
LowerBounds == {-20000000, 0, 95307487}
Extents == {0, 5000000, 7654321, 12000000}
TileSizes == {5000000, 10000000}

TilesInit ==
    /\ \E lon \in LowerBounds, lat \in LowerBounds, width \in Extents, height \in Extents :
          bbox = [min_lon |-> lon, min_lat |-> lat,
                  max_lon |-> lon + width, max_lat |-> lat + height]
    /\ max_tile_size \in TileSizes
    /\ NoTies(bbox, max_tile_size)
    /\ split = NotSplit
    /\ ReconciliationIdle
    /\ NormalizerIdle
    /\ CacheIdle
    /\ MatcherIdle
    /\ CollectorIdle
    /\ NotesIdle
    /\ PagerIdle

SplitBboxIntoTiles ==
    /\ ~split.called
    /\ split' = split_bbox_into_tiles(bbox, max_tile_size)
    /\ UNCHANGED <<bbox, max_tile_size>>
    /\ UNCHANGED outside_tiles

TilesNext == SplitBboxIntoTiles

TilesSpec == TilesInit /\ [][TilesNext]_vars

(***************************************************************************)
(* C30: split_bbox_into_tiles returns lon_tiles * lat_tiles tiles, at      *)
(* least one; the tiles cover the bounding box, neighbouring tiles share   *)
(* their boundary, every tile lies inside the box, and no tile is wider or *)
(* higher than max_tile_size.                                              *)
(***************************************************************************)
TileAt(i, j) == split.tiles[i * split.lat_tiles + j + 1]

TilesShareBoundaries ==
    /\ \A i \in 0..(split.lon_tiles - 2), j \in 0..(split.lat_tiles - 1) :
          TileAt(i, j).max_lon = TileAt(i + 1, j).min_lon
    /\ \A i \in 0..(split.lon_tiles - 1), j \in 0..(split.lat_tiles - 2) :
          TileAt(i, j).max_lat = TileAt(i, j + 1).min_lat

TilesCoverBox ==
    \A j \in 0..(split.lat_tiles - 1), i \in 0..(split.lon_tiles - 1) :
        /\ TileAt(0, j).min_lon <= bbox.min_lon
        /\ TileAt(split.lon_tiles - 1, j).max_lon >= bbox.max_lon
        /\ TileAt(i, 0).min_lat <= bbox.min_lat
        /\ TileAt(i, split.lat_tiles - 1).max_lat >= bbox.max_lat

TilesInsideBox ==
    \A k \in 1..Len(split.tiles) :
        /\ bbox.min_lon <= split.tiles[k].min_lon
        /\ split.tiles[k].max_lon <= bbox.max_lon
        /\ bbox.min_lat <= split.tiles[k].min_lat
        /\ split.tiles[k].max_lat <= bbox.max_lat

TilesWithinSize ==
    \A k \in 1..Len(split.tiles) :
        /\ split.tiles[k].max_lon - split.tiles[k].min_lon <= max_tile_size
        /\ split.tiles[k].max_lat - split.tiles[k].min_lat <= max_tile_size

C30_TilesPartitionBox ==
    split.called =>
        /\ Len(split.tiles) = split.lon_tiles * split.lat_tiles
        /\ Len(split.tiles) >= 1
        /\ TilesShareBoundaries
        /\ TilesCoverBox
        /\ TilesInsideBox
        /\ TilesWithinSize

====
